---------------------------- MODULE Spec2Model ----------------------------
(***************************************************************************)
(* Model of the applicant-ranking core of JobSync:                         *)
(*   - rankApplicantsForJob   (src/src/lib/gemini/rankApplicants.ts)       *)
(*   - the dictionary loader and the single-item normalizers               *)
(*     (src/unnamed/part_000, lines 78-1070)                               *)
(*   - the three scoring algorithms and the ensemble                       *)
(*     (src/unnamed/part_000, lines 1074-2017)                             *)
(*                                                                         *)
(* Numbers.  Scores are JavaScript doubles in the source.  They are kept   *)
(* here as fixed-point integers, one unit = 0.001 score point, so 100.000  *)
(* is 100000 and the 0.01 sort epsilon is 10 units.  Math.round(x*100)/100 *)
(* is Round2: round half up to a multiple of 10 units.                     *)
(***************************************************************************)
EXTENDS Integers, Sequences, FiniteSets, TLC

VARIABLES
    \* ---- rankApplicantsForJob ----
    rpc,               \* position in rankApplicantsForJob
    scoredApplicants,  \* result of applicants.map(...) in input order (l.74-132)
    sortedApplicants,  \* the array being sorted / adjusted (l.135-216)
    detSorted,         \* history: sortedApplicants right after the first sort
    tieGroups,         \* result of findTieGroups (l.180)
    tieBreakCalls,     \* number of breakTiesWithAI invocations
    tieBreakResults,   \* what breakTiesWithAI returned (l.201)
    rankedApplicants,  \* the returned array (l.222-248)
    insightOutcome,    \* what the insight call did: "none", "answered", "failed"
    \* ---- dictionary loader and normalizers (part_000 l.121-764) ----
    degreesFile,           \* degrees.yaml: [status, doc]
    eligibilitiesFile,     \* eligibilities.yaml: [status, doc]
    degreesByKey,          \* l.122
    eligibilitiesByKey,    \* l.123
    degreeAliasIndex,      \* l.126
    eligibilityAliasIndex, \* l.127
    dictionariesLoaded,    \* l.130
    dictionariesLoadingPromise, \* l.131: "null", "pending" or "resolved"
    loadPc,                \* position of the load body (the async closure of l.298)
    degreesDoc,            \* l.322
    eligibilitiesDoc,      \* l.323
    loadRuns,              \* history: how often the load body was started
    calls,                 \* the normalization calls in progress, per caller
    serviceCalls,          \* history: calls of generateContent
    \* ---- scoring (part_000 l.1074-2017) ----
    scoredJob,             \* the JobRequirements given to the scoring functions
    scoredApplicant,       \* the ApplicantData given to them
    breakdowns             \* the ScoreBreakdown each function returned

rankVars == <<rpc, scoredApplicants, sortedApplicants, detSorted, tieGroups,
              tieBreakCalls, tieBreakResults, rankedApplicants, insightOutcome>>

normVars == <<degreesFile, eligibilitiesFile, degreesByKey, eligibilitiesByKey,
              degreeAliasIndex, eligibilityAliasIndex, dictionariesLoaded,
              dictionariesLoadingPromise, loadPc, degreesDoc, eligibilitiesDoc,
              loadRuns, calls, serviceCalls>>

scoreVars == <<scoredJob, scoredApplicant, breakdowns>>

vars == <<rankVars, normVars, scoreVars>>

-----------------------------------------------------------------------------
(* Generic helpers *)

Abs(x) == IF x < 0 THEN -x ELSE x

Min2(a, b) == IF a < b THEN a ELSE b

Max2(a, b) == IF a > b THEN a ELSE b

Range(s) == {s[i] : i \in DOMAIN s}

\* All permutations of 1..n, as functions position -> index.
Perms(n) == {p \in [1..n -> 1..n] : \A i, j \in 1..n : i # j => p[i] # p[j]}

-----------------------------------------------------------------------------
(* Strings.  A string is a sequence of one-character strings, so that the  *)
(* code's character-level operations can be computed.                       *)

UpperChars ==
    <<"A", "B", "C", "D", "E", "F", "G", "H", "I", "J", "K", "L", "M",
      "N", "O", "P", "Q", "R", "S", "T", "U", "V", "W", "X", "Y", "Z">>

LowerChars ==
    <<"a", "b", "c", "d", "e", "f", "g", "h", "i", "j", "k", "l", "m",
      "n", "o", "p", "q", "r", "s", "t", "u", "v", "w", "x", "y", "z">>

DigitChars == {"0", "1", "2", "3", "4", "5", "6", "7", "8", "9"}

\* \s of the regular expressions (only the blank occurs in the inputs).
IsSpace(c) == c = " "

\* \w of the regular expressions.
IsWordChar(c) ==
    c \in Range(UpperChars) \cup Range(LowerChars) \cup DigitChars \cup {"_"}

LowerChar(c) ==
    IF c \in Range(UpperChars)
        THEN LowerChars[CHOOSE i \in DOMAIN UpperChars : UpperChars[i] = c]
    ELSE c

\* String.prototype.toLowerCase
toLowerCase(s) == [i \in DOMAIN s |-> LowerChar(s[i])]

\* String.prototype.trim
trim(s) ==
    LET keep == {i \in DOMAIN s : ~IsSpace(s[i])}
    IN  IF keep = {} THEN <<>>
        ELSE SubSeq(s, CHOOSE i \in keep : \A j \in keep : i <= j,
                       CHOOSE i \in keep : \A j \in keep : i >= j)

\* s.replace(/[^\w\s]/g, ' ')
StripPunctuation(s) ==
    [i \in DOMAIN s |-> IF IsWordChar(s[i]) \/ IsSpace(s[i]) THEN s[i] ELSE " "]

\* s.replace(/\s+/g, ' '): a run of blanks becomes one blank.
CollapseSpaces(s) ==
    LET keep == {i \in DOMAIN s : ~IsSpace(s[i]) \/ i = 1 \/ ~IsSpace(s[i - 1])}
        nth(k) == CHOOSE i \in keep : Cardinality({j \in keep : j <= i}) = k
    IN  [k \in 1..Cardinality(keep) |-> s[nth(k)]]

\* s.split(/\s+/).filter(Boolean): the maximal runs of non-blank characters.
Words(s) ==
    LET starts == {i \in DOMAIN s : ~IsSpace(s[i]) /\ (i = 1 \/ IsSpace(s[i - 1]))}
        endOf(i) == CHOOSE j \in i..Len(s) :
                        /\ \A k \in i..j : ~IsSpace(s[k])
                        /\ (j = Len(s) \/ IsSpace(s[j + 1]))
        nth(k) == CHOOSE i \in starts : Cardinality({j \in starts : j <= i}) = k
    IN  [k \in 1..Cardinality(starts) |-> SubSeq(s, nth(k), endOf(nth(k)))]

-----------------------------------------------------------------------------
(* Bounds of the ranking model *)

MaxApplicants == 2

\* Magnitude of an AI micro-adjustment, in units of 0.001 (0.05 points).
MicroAdj == 50

\* Longest list used to reach ranks below the insight cut-off (TopK).
MaxCrowd == 6

-----------------------------------------------------------------------------
(* rankApplicantsForJob: constants of the code *)

\* The 0.01 epsilon of the deterministic comparator (10 units of 0.001).
SortEps == 10

\* Insights are requested for slice(0, Math.min(5, n)).
TopK == 5

\* Tie groups: totalScore values within 0.1 (100 units of 0.001).
TieEps == 100

-----------------------------------------------------------------------------
(* Inputs: the scored applicants, i.e. the result of applicants.map(...)    *)
(* at l.74-132: the applicant's own fields spread together with the         *)
(* ScoreBreakdown of ensembleScore.  Scores are drawn from small sets of    *)
(* values ensembleScore can return: totalScore is always rounded to 0.01    *)
(* (a multiple of 10 units, part_000 l.1936 and l.2011), while on the       *)
(* tie-breaker branch the component scores are Algorithm 3's unrounded      *)
(* values (part_000 l.1962-1966), so two applicants' component scores can   *)
(* differ by less than 0.01, e.g. similarities 100*(1 - 99/100) and         *)
(* 100*(1 - 100/101) of part_000 l.1160.                                    *)

TotalValues == {70000, 70040, 70120}

EligibilityValues == {80000, 80006, 80012}

EducationValues == {60000, 85000}

YearsValues == {3, 5}

Scored(id, t, el, ed, ex, sk, yrs, nsk) ==
    [applicantId |-> id, totalScore |-> t, eligibilityScore |-> el,
     educationScore |-> ed, experienceScore |-> ex, skillsScore |-> sk,
     totalYearsExperience |-> yrs, skillsLen |-> nsk, tieBreakNotes |-> 0]

\* Applicants whose totals are equal, within the tie epsilon, or just apart.
CloseApplicant(id) ==
    {Scored(id, t, el, 60000, 75000, 50000, yrs, 2) :
        t \in TotalValues, el \in EligibilityValues, yrs \in YearsValues}

\* Applicants with one total whose eligibility scores are less than the
\* sort epsilon apart from their neighbours'.
ChainApplicant(id) ==
    {Scored(id, 70000, el, ed, 75000, 50000, yrs, 2) :
        el \in EligibilityValues, ed \in EducationValues, yrs \in YearsValues}

\* Applicants that differ only on the late keys of the comparator.
LateKeyApplicant(id) ==
    {Scored(id, 70000, 80000, 60000, ex, sk, 3, nsk) :
        ex \in {75000, 76000}, sk \in {50000, 57500}, nsk \in {2, 3}}

\* Applicants of a long list: totals far apart, in no particular order.
CrowdApplicant(id) ==
    {Scored(id, t, 80000, 60000, 75000, 50000, 3, 2) :
        t \in {40000 + 1000 * id, 90000 - 1000 * id}}

\* Applicants whose totals are one hundredth apart and whose eligibility
\* scores are far apart.
HairlineApplicant(id) ==
    {Scored(id, t, el, 60000, 75000, 50000, 3, 2) :
        t \in {70010, 70020}, el \in {80000, 90000}}

\* Applicants of a list of three: totals equal, within the tie epsilon of
\* the next, or beyond it.
EdgeApplicant(id) ==
    {Scored(id, t, 80000, 60000, 75000, 50000, 3, 2) : t \in TotalValues}

RECURSIVE ListsOf(_, _, _)
\* All lists of length n whose i-th element is drawn from the family fam
\* ("close", "chain", "late", "hairline", "edge" or "crowd") with
\* applicantId = i; k is the build position.
ListsOf(fam, n, k) ==
    IF k > n THEN {<<>>}
    ELSE LET heads == ListsOf(fam, n, k + 1)
             elems == IF fam = "close" THEN CloseApplicant(n - k + 1)
                      ELSE IF fam = "chain" THEN ChainApplicant(n - k + 1)
                      ELSE IF fam = "late" THEN LateKeyApplicant(n - k + 1)
                      ELSE IF fam = "hairline" THEN HairlineApplicant(n - k + 1)
                      ELSE IF fam = "edge" THEN EdgeApplicant(n - k + 1)
                      ELSE CrowdApplicant(n - k + 1)
         IN  {Append(h, e) : h \in heads, e \in elems}

InputLists ==
    (UNION {ListsOf("close", n, 1) : n \in 0..MaxApplicants})
    \cup ListsOf("chain", 3, 1)
    \cup ListsOf("late", 2, 1)
    \cup ListsOf("hairline", 2, 1)
    \cup ListsOf("edge", 3, 1)
    \cup (UNION {ListsOf("crowd", n, 1) : n \in (TopK + 1)..MaxCrowd})

-----------------------------------------------------------------------------
(* The deterministic comparator and Array.prototype.sort *)

\* The double nearest to k / 100, for 6400 <= k < 12800, is
\* (k * 703687441776 + DoubleOffset(k)) * 2^-46, because 2^46 / 100 is
\* 703687441776.64: the offset is 0.64 * k rounded to the nearest integer.
DoubleOffset(k) == (64 * k + 50) \div 100

\* Math.abs(x - y) >= 0.01 (l.137, l.142, l.147, l.152, l.157) in the double
\* arithmetic of the language.  The constant 0.01 is the double
\* 703687441776.64001 * 2^-46 and the difference of two doubles between 64
\* and 128 is exact, so two values rounded to hundredths (Math.round(x * 100)
\* / 100) that lie one hundredth apart pass the test only when their offsets
\* differ: 70.03 - 70.02 does, 70.02 - 70.01 = 0.00999999999999090 does not.
\* At every other distance of the values used here the rounding error is
\* far smaller than the margin.
AtLeastEpsilonApart(x, y) ==
    IF /\ Abs(x - y) = SortEps
       /\ x % 10 = 0
       /\ Min2(x, y) >= 64000
       /\ Max2(x, y) < 128000
        THEN DoubleOffset(Max2(x, y) \div 10) > DoubleOffset(Min2(x, y) \div 10)
    ELSE Abs(x - y) >= SortEps

\* Mutant of CompareApplicants: education is compared before eligibility.
CompareApplicantsEducationFirst(a, b) ==
    IF AtLeastEpsilonApart(b.totalScore, a.totalScore)
        THEN b.totalScore - a.totalScore
    ELSE IF AtLeastEpsilonApart(b.educationScore, a.educationScore)
        THEN b.educationScore - a.educationScore
    ELSE IF AtLeastEpsilonApart(b.eligibilityScore, a.eligibilityScore)
        THEN b.eligibilityScore - a.eligibilityScore
    ELSE IF AtLeastEpsilonApart(b.experienceScore, a.experienceScore)
        THEN b.experienceScore - a.experienceScore
    ELSE IF AtLeastEpsilonApart(b.skillsScore, a.skillsScore)
        THEN b.skillsScore - a.skillsScore
    ELSE IF b.totalYearsExperience # a.totalYearsExperience
        THEN b.totalYearsExperience - a.totalYearsExperience
    ELSE IF b.skillsLen # a.skillsLen
        THEN b.skillsLen - a.skillsLen
    ELSE 0

\* Mutant of CompareApplicants: the raw years of experience are not compared.
CompareApplicantsNoYears(a, b) ==
    IF AtLeastEpsilonApart(b.totalScore, a.totalScore)
        THEN b.totalScore - a.totalScore
    ELSE IF AtLeastEpsilonApart(b.eligibilityScore, a.eligibilityScore)
        THEN b.eligibilityScore - a.eligibilityScore
    ELSE IF AtLeastEpsilonApart(b.educationScore, a.educationScore)
        THEN b.educationScore - a.educationScore
    ELSE IF AtLeastEpsilonApart(b.experienceScore, a.experienceScore)
        THEN b.experienceScore - a.experienceScore
    ELSE IF AtLeastEpsilonApart(b.skillsScore, a.skillsScore)
        THEN b.skillsScore - a.skillsScore
    ELSE IF b.skillsLen # a.skillsLen
        THEN b.skillsLen - a.skillsLen
    ELSE 0

\* The comparator of l.135-175; negative: a goes first.
CompareApplicants(a, b) ==
    IF AtLeastEpsilonApart(b.totalScore, a.totalScore)
        THEN b.totalScore - a.totalScore
    ELSE IF AtLeastEpsilonApart(b.eligibilityScore, a.eligibilityScore)
        THEN b.eligibilityScore - a.eligibilityScore
    ELSE IF AtLeastEpsilonApart(b.educationScore, a.educationScore)
        THEN b.educationScore - a.educationScore
    ELSE IF AtLeastEpsilonApart(b.experienceScore, a.experienceScore)
        THEN b.experienceScore - a.experienceScore
    ELSE IF AtLeastEpsilonApart(b.skillsScore, a.skillsScore)
        THEN b.skillsScore - a.skillsScore
    ELSE IF b.totalYearsExperience # a.totalYearsExperience
        THEN b.totalYearsExperience - a.totalYearsExperience
    ELSE IF b.skillsLen # a.skillsLen
        THEN b.skillsLen - a.skillsLen
    ELSE 0

\* CompareTotals for an ascending sort.
CompareTotalsAscending(a, b) == a.totalScore - b.totalScore

\* The comparator of the re-sort at l.214.
CompareTotals(a, b) == b.totalScore - a.totalScore

\* mode "keys": the first sort; mode "total": the re-sort.
Cmp(mode, a, b) ==
    IF mode = "keys" THEN CompareApplicants(a, b) ELSE CompareTotals(a, b)

\* ECMAScript: the comparator is consistent on the elements when it orders
\* them in totally ordered equivalence classes.
ConsistentComparator(mode, seq) ==
    \A a, b, c \in Range(seq) :
        /\ (Cmp(mode, a, b) < 0 /\ Cmp(mode, b, c) < 0) => Cmp(mode, a, c) < 0
        /\ (Cmp(mode, a, b) = 0 /\ Cmp(mode, b, c) = 0) => Cmp(mode, a, c) = 0
        /\ (Cmp(mode, a, b) = 0 /\ Cmp(mode, b, c) < 0) => Cmp(mode, a, c) < 0
        /\ (Cmp(mode, a, b) < 0 /\ Cmp(mode, b, c) = 0) => Cmp(mode, a, c) < 0

RECURSIVE StableSort(_, _, _)
\* The stable sort of the first k elements of seq (insertion: x goes after
\* every element that does not compare greater than it).
StableSort(mode, seq, k) ==
    IF k = 0 THEN <<>>
    ELSE LET done == StableSort(mode, seq, k - 1)
             x    == seq[k]
             at   == Cardinality({i \in DOMAIN done : Cmp(mode, done[i], x) <= 0})
         IN  SubSeq(done, 1, at) \o <<x>> \o SubSeq(done, at + 1, Len(done))

\* Array.prototype.sort.  With a consistent comparator the result is the
\* stable sort.  Otherwise the order is implementation-defined; what every
\* comparison sort still delivers is a permutation in which each element
\* was placed against its neighbour by a direct comparison.
SortOutcomes(mode, seq) ==
    IF ConsistentComparator(mode, seq)
        THEN {StableSort(mode, seq, Len(seq))}
    ELSE {[i \in 1..Len(seq) |-> seq[p[i]]] : p \in
            {q \in Perms(Len(seq)) :
                \A i \in 1..(Len(seq) - 1) :
                    Cmp(mode, seq[q[i]], seq[q[i + 1]]) <= 0}}

-----------------------------------------------------------------------------
(* aiTieBreaker (findTieGroups, breakTiesWithAI): its source is not part of *)
(* the repository files at hand; both are modelled from the specification.  *)

RECURSIVE GroupFrom(_, _, _)
\* The end index of the run starting at position first: following positions
\* are in the group while their totalScore stays within TieEps of the first.
GroupFrom(seq, first, k) ==
    IF k + 1 <= Len(seq)
       /\ Abs(seq[first].totalScore - seq[k + 1].totalScore) <= TieEps
        THEN GroupFrom(seq, first, k + 1)
    ELSE k

RECURSIVE TieRuns(_, _)
\* The runs of the list from position i on, as <<first, last>> pairs.
TieRuns(seq, i) ==
    IF i > Len(seq) THEN {}
    ELSE LET last == GroupFrom(seq, i, i)
         IN  {<<i, last>>} \cup TieRuns(seq, last + 1)

\* findTieGroups: the groups of size >= 2, each the set of its applicantIds.
findTieGroups(seq) ==
    {{seq[i].applicantId : i \in r[1]..r[2]} : r \in
        {t \in TieRuns(seq, 1) : t[2] > t[1]}}

\* breakTiesWithAI, successful: one signed micro-adjustment per tied
\* candidate, as a function applicantId -> adjustment.
TieBreakAnswers(groups) == [UNION groups -> {-MicroAdj, 0, MicroAdj}]

\* breakTiesWithAI, external call failed: no results, no exception.
TieBreakFailure == <<>>

-----------------------------------------------------------------------------
(* Applying the tie-break results and assigning ranks *)

\* l.205-211: each result is added to its applicant's totalScore and noted
\* in its reasoning.
ApplyMicroAdjustments(seq, results) ==
    [i \in 1..Len(seq) |->
        IF seq[i].applicantId \in DOMAIN results
            THEN [seq[i] EXCEPT
                    !.totalScore = @ + results[seq[i].applicantId],
                    !.tieBreakNotes = @ + 1]
        ELSE seq[i]]

\* AfterTieBreak when the list is re-sorted whatever the results are.
AfterTieBreakAlwaysSorts(seq, results) ==
    SortOutcomes("total", ApplyMicroAdjustments(seq, results))

\* l.204-216: adjustments and the re-sort happen only for a non-empty result.
AfterTieBreak(seq, results) ==
    IF DOMAIN results # {}
        THEN SortOutcomes("total", ApplyMicroAdjustments(seq, results))
    ELSE {seq}

\* Mutant of RankedApplicant: the array index is used as the rank (0-based).
RankedApplicantZeroBased(applicant, index) ==
    [applicantId |-> applicant.applicantId,
     rank |-> index - 1,
     matchScore |-> applicant.totalScore,
     educationScore |-> applicant.educationScore,
     experienceScore |-> applicant.experienceScore,
     skillsScore |-> applicant.skillsScore,
     eligibilityScore |-> applicant.eligibilityScore,
     tieBreakNotes |-> applicant.tieBreakNotes,
     geminiInsights |-> "none"]

\* Mutant of RankedApplicant: matchScore is rounded to a whole number.
RankedApplicantRounded(applicant, index) ==
    [applicantId |-> applicant.applicantId,
     rank |-> index,
     matchScore |-> ((applicant.totalScore + 500) \div 1000) * 1000,
     educationScore |-> applicant.educationScore,
     experienceScore |-> applicant.experienceScore,
     skillsScore |-> applicant.skillsScore,
     eligibilityScore |-> applicant.eligibilityScore,
     tieBreakNotes |-> applicant.tieBreakNotes,
     geminiInsights |-> "none"]

\* l.222-236: the RankedApplicant of the applicant at position index.
RankedApplicant(applicant, index) ==
    [applicantId |-> applicant.applicantId,
     rank |-> index,
     matchScore |-> applicant.totalScore,
     educationScore |-> applicant.educationScore,
     experienceScore |-> applicant.experienceScore,
     skillsScore |-> applicant.skillsScore,
     eligibilityScore |-> applicant.eligibilityScore,
     tieBreakNotes |-> applicant.tieBreakNotes,
     geminiInsights |-> "none"]

AssignRanks(seq) == [i \in 1..Len(seq) |-> RankedApplicant(seq[i], i)]

\* Mutant of TopCandidates: the whole list is handed over, not a slice.
TopCandidatesAll(ranked) == 1..Len(ranked)

\* l.241: the candidates handed to addGeminiInsights (positions).
TopCandidates(ranked) == 1..Min2(TopK, Len(ranked))

\* A response of the insight service, split at "Candidate n:" (l.296): the
\* number of pieces, all non-empty; one more than TopK covers a response
\* that is longer than the candidate list.
InsightResponses == 0..(TopK + 1)

\* l.298-302: candidate index gets insights[index] when there is one.
AttachInsights(ranked, pieces) ==
    [i \in 1..Len(ranked) |->
        IF i \in TopCandidates(ranked) /\ i <= pieces
            THEN [ranked[i] EXCEPT !.geminiInsights = "insight"]
        ELSE ranked[i]]

-----------------------------------------------------------------------------
(* rankApplicantsForJob as a state machine.  Its suspension points are the  *)
(* awaits of breakTiesWithAI (l.201) and addGeminiInsights (l.241).         *)

\* The ranking variables before a run starts.
RankIdle(list) ==
    /\ rpc = "scored"
    /\ scoredApplicants = list
    /\ sortedApplicants = <<>>
    /\ detSorted = <<>>
    /\ tieGroups = {}
    /\ tieBreakCalls = 0
    /\ tieBreakResults = <<>>
    /\ rankedApplicants = <<>>
    /\ insightOutcome = "none"

\* A document that was not read: null in the source (l.322-323).
NullDoc == [isNull |-> TRUE, items |-> <<>>]

\* A dictionary file that does not exist.
NoFile == [status |-> "missing", doc |-> NullDoc]

\* The process state of the normalizer module before any call (l.121-131).
NormIdle(dfile, efile, cs) ==
    /\ degreesFile = dfile
    /\ eligibilitiesFile = efile
    /\ degreesByKey = <<>>
    /\ eligibilitiesByKey = <<>>
    /\ degreeAliasIndex = <<>>
    /\ eligibilityAliasIndex = <<>>
    /\ dictionariesLoaded = FALSE
    /\ dictionariesLoadingPromise = "null"
    /\ loadPc = "none"
    /\ degreesDoc = NullDoc
    /\ eligibilitiesDoc = NullDoc
    /\ loadRuns = 0
    /\ calls = cs
    /\ serviceCalls = 0

\* No scoring function has been given anything.
NothingScored ==
    /\ scoredJob = <<>>
    /\ scoredApplicant = <<>>
    /\ breakdowns = <<>>

InitRank ==
    /\ \E list \in InputLists : RankIdle(list)
    /\ NormIdle(NoFile, NoFile, <<>>)
    /\ NothingScored

\* l.135-195: the deterministic sort and the tie-group detection.
SortApplicants ==
    /\ rpc = "scored"
    /\ sortedApplicants' \in SortOutcomes("keys", scoredApplicants)
    /\ detSorted' = sortedApplicants'
    /\ tieGroups' = findTieGroups(sortedApplicants')
    /\ rpc' = "sorted"
    /\ UNCHANGED <<normVars, scoreVars>>
    /\ UNCHANGED <<scoredApplicants, tieBreakCalls, tieBreakResults,
                   rankedApplicants, insightOutcome>>

\* l.217-236: no tie group, ranks are assigned at once.
NoTiesFound ==
    /\ rpc = "sorted"
    /\ tieGroups = {}
    /\ rankedApplicants' = AssignRanks(sortedApplicants)
    /\ rpc' = "ranked"
    /\ UNCHANGED <<normVars, scoreVars>>
    /\ UNCHANGED <<scoredApplicants, sortedApplicants, detSorted, tieGroups,
                   tieBreakCalls, tieBreakResults, insightOutcome>>

\* l.197-236 for one value returned by breakTiesWithAI.
TieBreakReturns(results) ==
    /\ rpc = "sorted"
    /\ tieGroups # {}
    /\ tieBreakCalls' = tieBreakCalls + 1
    /\ tieBreakResults' = results
    /\ sortedApplicants' \in AfterTieBreak(sortedApplicants, results)
    /\ rankedApplicants' = AssignRanks(sortedApplicants')
    /\ rpc' = "ranked"
    /\ UNCHANGED <<normVars, scoreVars>>
    /\ UNCHANGED <<scoredApplicants, detSorted, tieGroups, insightOutcome>>

TieBreakSucceeds == \E results \in TieBreakAnswers(tieGroups) : TieBreakReturns(results)

TieBreakFails == TieBreakReturns(TieBreakFailure)

\* l.239: an empty list is returned without asking for insights.
ReturnEmpty ==
    /\ rpc = "ranked"
    /\ Len(rankedApplicants) = 0
    /\ rpc' = "done"
    /\ UNCHANGED <<normVars, scoreVars>>
    /\ UNCHANGED <<scoredApplicants, sortedApplicants, detSorted, tieGroups,
                   tieBreakCalls, tieBreakResults, rankedApplicants,
                   insightOutcome>>

\* l.241 and l.290-302: the insight service answered.
InsightsSucceed ==
    /\ rpc = "ranked"
    /\ Len(rankedApplicants) > 0
    /\ \E pieces \in InsightResponses :
          /\ rankedApplicants' = AttachInsights(rankedApplicants, pieces)
          /\ insightOutcome' = "answered"
    /\ rpc' = "done"
    /\ UNCHANGED <<normVars, scoreVars>>
    /\ UNCHANGED <<scoredApplicants, sortedApplicants, detSorted, tieGroups,
                   tieBreakCalls, tieBreakResults>>

\* l.303-306 and l.242-245: the insight call threw; the error is logged.
InsightsFail ==
    /\ rpc = "ranked"
    /\ Len(rankedApplicants) > 0
    /\ insightOutcome' = "failed"
    /\ rpc' = "done"
    /\ UNCHANGED <<normVars, scoreVars>>
    /\ UNCHANGED <<scoredApplicants, sortedApplicants, detSorted, tieGroups,
                   tieBreakCalls, tieBreakResults, rankedApplicants>>

NextRank ==
    \/ SortApplicants
    \/ NoTiesFound
    \/ TieBreakSucceeds
    \/ TieBreakFails
    \/ ReturnEmpty
    \/ InsightsSucceed
    \/ InsightsFail

SpecRank == InitRank /\ [][NextRank]_vars

\* The steps the run takes by itself: the code between two awaits runs to
\* the next await.
RankLocalStep == SortApplicants \/ NoTiesFound \/ ReturnEmpty

\* breakTiesWithAI returns or throws.
TieBreakSettles == TieBreakSucceeds \/ TieBreakFails

\* The lists of the runs whose progress is checked: the empty list, the
\* lists of one applicant, and the lists of two applicants who tie.
LiveLists ==
    (UNION {ListsOf("close", n, 1) : n \in 0..1}) \cup ListsOf("late", 2, 1)

InitRankLive ==
    /\ \E list \in LiveLists : RankIdle(list)
    /\ NormIdle(NoFile, NoFile, <<>>)
    /\ NothingScored

\* The run with its scheduling.  The promise of model.generateContent
\* (l.291) is awaited with no timeout, so nothing forces InsightsSucceed or
\* InsightsFail while the service stays silent.
SpecRankLive ==
    /\ InitRankLive
    /\ [][NextRank]_vars
    /\ WF_vars(RankLocalStep)
    /\ WF_vars(TieBreakSettles)

\* C16: a ranking run eventually returns its ranked list, also when the
\* service never answers.
C16_RunReturns == <>(rpc = "done")

-----------------------------------------------------------------------------
(* Properties of rankApplicantsForJob *)

Returned == rpc \in {"ranked", "done"}

\* The scored applicant with the given applicantId (ids are input positions).
ScoredOf(id) == scoredApplicants[id]

\* Position of the applicant with the given id in a list.
PosIn(seq, id) == CHOOSE i \in DOMAIN seq : seq[i].applicantId = id

\* On each of the five score keys, any two applicants' values are equal or
\* at least the sort epsilon apart.
NoNearValues(seq) ==
    \A a, b \in Range(seq) :
        \A key \in {"totalScore", "eligibilityScore", "educationScore",
                    "experienceScore", "skillsScore"} :
            a[key] = b[key] \/ AtLeastEpsilonApart(a[key], b[key])

\* C1: the returned list has exactly one RankedApplicant per input
\* applicant and its ranks are 1..N in list order.
C1_DenseRanks ==
    Returned =>
        /\ Len(rankedApplicants) = Len(scoredApplicants)
        /\ {rankedApplicants[i].applicantId : i \in DOMAIN rankedApplicants}
              = {scoredApplicants[i].applicantId : i \in DOMAIN scoredApplicants}
        /\ \A i \in DOMAIN rankedApplicants : rankedApplicants[i].rank = i

\* C1 witness: three applicants were returned after non-zero AI
\* micro-adjustments changed the deterministic order.
C1_Witness ==
    /\ rpc = "done"
    /\ Len(rankedApplicants) = 3
    /\ \E id \in DOMAIN tieBreakResults : tieBreakResults[id] # 0
    /\ \E i \in DOMAIN rankedApplicants :
          rankedApplicants[i].applicantId # detSorted[i].applicantId

WithoutInsights(r) == [r EXCEPT !.geminiInsights = "none"]

\* C3: the insight step changes nothing but geminiInsights, and only of
\* the applicants ranked in the top min(5, N); it never stops the run.
C3_InsightsFrame ==
    [][rpc = "ranked" =>
        /\ rpc' = "done"
        /\ Len(rankedApplicants') = Len(rankedApplicants)
        /\ \A i \in DOMAIN rankedApplicants :
              /\ WithoutInsights(rankedApplicants'[i]) = WithoutInsights(rankedApplicants[i])
              /\ i > Min2(TopK, Len(rankedApplicants))
                    => rankedApplicants'[i].geminiInsights = "none"]_vars

\* C3 witness: a list longer than five was returned with insights on its
\* first five applicants only.
C3_Witness ==
    /\ rpc = "done"
    /\ Len(rankedApplicants) > TopK
    /\ \A i \in 1..TopK : rankedApplicants[i].geminiInsights = "insight"
    /\ rankedApplicants[TopK + 1].geminiInsights = "none"

\* The sort keys in order; the first five are compared with the epsilon.
SortKeys ==
    <<"totalScore", "eligibilityScore", "educationScore", "experienceScore",
      "skillsScore", "totalYearsExperience", "skillsLen">>

DiffersOn(k, a, b) ==
    IF k <= 5 THEN AtLeastEpsilonApart(a[SortKeys[k]], b[SortKeys[k]])
    ELSE a[SortKeys[k]] # b[SortKeys[k]]

\* a may stand before b: a is larger on the first key on which they
\* differ, or they differ on none and a came first in the input.
RightlyBefore(a, b) ==
    LET ks == {k \in DOMAIN SortKeys : DiffersOn(k, a, b)}
    IN  IF ks = {} THEN a.applicantId < b.applicantId
        ELSE LET k == CHOOSE x \in ks : \A y \in ks : x <= y
             IN  a[SortKeys[k]] > b[SortKeys[k]]

RankOf(id) == rankedApplicants[PosIn(rankedApplicants, id)].rank

SameScores(a, b, keys) == \A k \in keys : a[k] = b[k]

\* The micro-adjustment applied to an applicant (0 when none was).
AdjustmentOf(id) ==
    IF id \in DOMAIN tieBreakResults THEN tieBreakResults[id] ELSE 0

\* C5 as stated: identical totalScore, educationScore, experienceScore
\* and skillsScore, and more years, give the better rank.
C5_Original ==
    rpc = "done" =>
        \A a, b \in Range(scoredApplicants) :
            (/\ SameScores(a, b, {"totalScore", "educationScore",
                                  "experienceScore", "skillsScore"})
             /\ a.totalYearsExperience > b.totalYearsExperience)
            => RankOf(a.applicantId) < RankOf(b.applicantId)

\* C5 as amended: the eligibilityScore is identical too, score values are
\* equal or at least 0.01 apart, and the tie-break gives B no larger
\* micro-adjustment than A.
C5_MoreYearsRanksHigher ==
    (rpc = "done" /\ NoNearValues(scoredApplicants)) =>
        \A a, b \in Range(scoredApplicants) :
            (/\ SameScores(a, b, {"totalScore", "eligibilityScore", "educationScore",
                                  "experienceScore", "skillsScore"})
             /\ a.totalYearsExperience > b.totalYearsExperience
             /\ AdjustmentOf(a.applicantId) >= AdjustmentOf(b.applicantId))
            => RankOf(a.applicantId) < RankOf(b.applicantId)

\* C5 witness: B came first in the input, A has more years and the same
\* scores, both got the same non-zero adjustment, and A is ranked first.
C5_Witness ==
    /\ rpc = "done"
    /\ Len(scoredApplicants) >= 2
    /\ NoNearValues(scoredApplicants)
    /\ SameScores(scoredApplicants[1], scoredApplicants[2],
                  {"totalScore", "eligibilityScore", "educationScore",
                   "experienceScore", "skillsScore"})
    /\ scoredApplicants[2].totalYearsExperience > scoredApplicants[1].totalYearsExperience
    /\ AdjustmentOf(1) = AdjustmentOf(2)
    /\ AdjustmentOf(1) # 0
    /\ RankOf(2) < RankOf(1)

-----------------------------------------------------------------------------
(* Dictionary loader and single-item normalizers (part_000 l.121-764).      *)
(* Canonical keys are atomic strings; every other text is a sequence of     *)
(* characters.  A confidence is a percentage (1.0 is 100).                  *)

\* The texts that occur in the dictionaries and in the inputs.
Txt_BS_IT == <<"B", "S", " ", "I", "T">>

Txt_B_S_IT == <<"B", ".", "S", ".", " ", "I", "T">>

Txt_bs_it == <<"b", "s", " ", "i", "t">>

Txt_BS_IT_dot == <<"B", "S", " ", "I", "T", ".">>

Txt_BS_CS == <<"B", "S", " ", "C", "S">>

Txt_IT == <<"I", "T">>

Txt_CS_Pro == <<"C", "S", " ", "P", "r", "o">>

Txt_CSP == <<"C", "S", "P">>

Txt_CPA == <<"C", "P", "A">>

Txt_cpa_padded == <<" ", "c", "p", "a", " ">>

Txt_CS_exam == <<"C", "S", " ", "e", "x", "a", "m">>

Txt_xyz == <<"x", "y", "z">>

Txt_blank == <<" ">>

\* Texts with list markers.
Txt_IT_AND_xyz_bs_it == <<"I", "T", " ", "A", "N", "D", " ", "x", "y", "z", ",", " ", "b", "s", " ", "i", "t">>

Txt_xyz_B_S_IT == <<"x", "y", "z", ",", "B", ".", "S", ".", " ", "I", "T">>

Txt_CSP_or_xyz == <<"C", "S", "P", " ", " ", "o", "r", " ", "x", "y", "z">>

Txt_comma == <<",">>

Txt_empty == <<>>

\* Content of degrees.yaml, in its list layout (l.182-199).  The second item
\* is identified by "id" and repeats a text of the first item as an alias,
\* the third has no canonical name, and the canonical name of the fourth is
\* an alias of the first.
DegreesYaml ==
    [isNull |-> FALSE,
     items |-> <<[key |-> "bsit", id |-> "", canonical |-> Txt_BS_IT,
                  aliases |-> <<Txt_B_S_IT>>],
                 [key |-> "", id |-> "bscs", canonical |-> Txt_BS_CS,
                  aliases |-> <<Txt_bs_it>>],
                 [key |-> "draft", id |-> "", canonical |-> Txt_empty,
                  aliases |-> <<Txt_IT>>],
                 [key |-> "bsinfotech", id |-> "", canonical |-> Txt_B_S_IT,
                  aliases |-> <<>>]>>]

\* Content of eligibilities.yaml, in its list layout (l.238-254).  The
\* canonical name of the third item is a space.
EligibilitiesYaml ==
    [isNull |-> FALSE,
     items |-> <<[key |-> "csp", id |-> "", canonical |-> Txt_CS_Pro,
                  aliases |-> <<Txt_CSP>>],
                 [key |-> "cpa", id |-> "", canonical |-> Txt_CPA,
                  aliases |-> <<>>],
                 [key |-> "void", id |-> "", canonical |-> Txt_blank,
                  aliases |-> <<>>]>>]

\* What a dictionary file can be: readable, absent (fs.existsSync is false),
\* or present but unreadable / not parseable (readFile or yaml.load throws).
FileStates(content) ==
    {[status |-> "valid", doc |-> content],
     [status |-> "missing", doc |-> NullDoc],
     [status |-> "broken", doc |-> NullDoc]}

\* l.139-145
normalizeKey(raw) == CollapseSpaces(StripPunctuation(trim(toLowerCase(raw))))

\* l.152-157: the set of tokens of a text.
tokenize(s) == Range(Words(StripPunctuation(toLowerCase(s))))

\* l.151-170: the similarity as a fraction num/den.
basicTokenSimilarity(a, b) ==
    LET aTokens == tokenize(a)
        bTokens == tokenize(b)
        intersection == Cardinality(aTokens \cap bTokens)
        union == Cardinality(aTokens) + Cardinality(bTokens) - intersection
    IN  IF aTokens = {} \/ bTokens = {} THEN [num |-> 0, den |-> 1]
        ELSE IF union = 0 THEN [num |-> 0, den |-> 1]
        ELSE [num |-> intersection, den |-> union]

\* l.175-199 and l.231-254: the flat list of the items that have a key (or an
\* id) and a canonical name.
parseDictionaryYaml(doc) ==
    LET usable(item) == (item.key # "" \/ item.id # "") /\ item.canonical # <<>>
        kept == SelectSeq(doc.items, usable)
    IN  IF doc.isNull THEN <<>>
        ELSE [i \in DOMAIN kept |->
                [key |-> IF kept[i].key # "" THEN kept[i].key ELSE kept[i].id,
                 canonical |-> kept[i].canonical,
                 aliases |-> kept[i].aliases]]

parseDegreesYaml(doc) == parseDictionaryYaml(doc)

parseEligibilitiesYaml(doc) == parseDictionaryYaml(doc)

\* A JavaScript Map, as the sequence of its entries in insertion order.
MapHas(m, k) == \E i \in DOMAIN m : m[i].k = k

MapGet(m, k) == m[CHOOSE i \in DOMAIN m : m[i].k = k].v

MapSet(m, k, v) ==
    IF MapHas(m, k)
        THEN [i \in DOMAIN m |-> IF m[i].k = k THEN [k |-> k, v |-> v] ELSE m[i]]
    ELSE Append(m, [k |-> k, v |-> v])

\* IndexStrings without l.386-389 (l.404-406): a text that is already indexed
\* is given to the later entry.
RECURSIVE IndexStringsLastWins(_, _, _, _)
IndexStringsLastWins(index, strings, entry, i) ==
    IF i > Len(strings) THEN index
    ELSE IndexStringsLastWins(MapSet(index, normalizeKey(strings[i]), entry),
                              strings, entry, i + 1)

\* l.384-391 (and l.402-408): index the texts of one entry; a normalized text
\* that is already indexed keeps its first entry.
RECURSIVE IndexStrings(_, _, _, _)
IndexStrings(index, strings, entry, i) ==
    IF i > Len(strings) THEN index
    ELSE LET nk == normalizeKey(strings[i])
         IN  IndexStrings(IF MapHas(index, nk) THEN index
                          ELSE MapSet(index, nk, entry),
                          strings, entry, i + 1)

\* l.377-378 (and l.395-396): the entries by key.
RECURSIVE BuildByKey(_, _, _)
BuildByKey(list, i, byKey) ==
    IF i > Len(list) THEN byKey
    ELSE BuildByKey(list, i + 1, MapSet(byKey, list[i].key, list[i]))

\* BuildAliasIndex stopped after the first entry of the list: the index is
\* left partially rebuilt.
BuildAliasIndexFirstOnly(list, i, index) ==
    IF i > Len(list) THEN index
    ELSE IndexStrings(index, <<list[i].canonical>> \o list[i].aliases,
                      list[i], 1)

\* l.377-392 (and l.395-409): the alias index.
RECURSIVE BuildAliasIndex(_, _, _)
BuildAliasIndex(list, i, index) ==
    IF i > Len(list) THEN index
    ELSE BuildAliasIndex(list, i + 1,
             IndexStrings(index, <<list[i].canonical>> \o list[i].aliases,
                          list[i], 1))

\* l.629 and l.713: the number of candidates shown to the classifier.
CandidateLimit == 20

\* l.501 (and l.519): scored.sort((a, b) => b.score - a.score), a stable sort.
RECURSIVE SortByScore(_, _)
SortByScore(scored, n) ==
    IF n = 0 THEN <<>>
    ELSE LET sorted == SortByScore(scored, n - 1)
             x == scored[n]
             lower == {i \in DOMAIN sorted :
                         sorted[i].score.num * x.score.den
                             < x.score.num * sorted[i].score.den}
             at == IF lower = {} THEN Len(sorted) + 1
                   ELSE CHOOSE i \in lower : \A j \in lower : i <= j
         IN  SubSeq(sorted, 1, at - 1) \o <<x>> \o SubSeq(sorted, at, Len(sorted))

\* getTopCandidates without l.497 (l.515): entries that share no token with
\* the text stay in the list.
getTopCandidatesUnfiltered(byKey, raw, limit) ==
    LET all == [i \in DOMAIN byKey |->
                   [entry |-> byKey[i].v,
                    score |-> basicTokenSimilarity(raw, byKey[i].v.canonical)]]
        sorted == SortByScore(all, Len(all))
    IN  IF Len(byKey) = 0 THEN <<>>
        ELSE [i \in 1..Min2(limit, Len(sorted)) |-> sorted[i].entry]

\* l.490-503 and l.508-521
getTopCandidates(byKey, raw, limit) ==
    LET all == [i \in DOMAIN byKey |->
                   [entry |-> byKey[i].v,
                    score |-> basicTokenSimilarity(raw, byKey[i].v.canonical)]]
        positive(s) == s.score.num > 0
        scored == SelectSeq(all, positive)
        sorted == SortByScore(scored, Len(scored))
    IN  IF Len(byKey) = 0 THEN <<>>
        ELSE [i \in 1..Min2(limit, Len(sorted)) |-> sorted[i].entry]

getTopDegreeCandidates(raw, limit) == getTopCandidates(degreesByKey, raw, limit)

getTopEligibilityCandidates(raw, limit) ==
    getTopCandidates(eligibilitiesByKey, raw, limit)

\* The maps a single-item normalizer of the given kind works on.
AliasIndexOf(kind) ==
    IF kind = "degree" THEN degreeAliasIndex ELSE eligibilityAliasIndex

ByKeyOf(kind) == IF kind = "degree" THEN degreesByKey ELSE eligibilitiesByKey

\* A NormalizationResult (l.104-110); canonicalKey "" is undefined.
Result(key, method, confidence, raw) ==
    [canonicalKey |-> key, method |-> method, confidence |-> confidence,
     raw |-> raw]

\* !raw || !raw.trim()  (l.608, l.692)
IsBlank(raw) == trim(raw) = <<>>

\* l.629 / l.713
CandidatesFor(kind, raw) ==
    IF kind = "degree" THEN getTopDegreeCandidates(raw, CandidateLimit)
    ELSE getTopEligibilityCandidates(raw, CandidateLimit)

\* normalizeWithDictionary without the call of normalizeKey (l.474, l.482):
\* the text is looked up as it is.
normalizeWithDictionaryVerbatim(kind, raw) ==
    IF MapHas(AliasIndexOf(kind), raw)
        THEN <<MapGet(AliasIndexOf(kind), raw)>>
    ELSE <<>>

\* l.473-476 and l.481-484, normalizeDegreeWithDictionary and
\* normalizeEligibilityWithDictionary: the entry indexed under the normalized
\* text, in a list that is empty for undefined.
normalizeWithDictionary(kind, raw) ==
    IF MapHas(AliasIndexOf(kind), normalizeKey(raw))
        THEN <<MapGet(AliasIndexOf(kind), normalizeKey(raw))>>
    ELSE <<>>

\* LocalOutcome without l.630-637 (l.714-721): the classifier is called even
\* when there is no candidate.
LocalOutcomeAlwaysClassifies(kind, raw) ==
    IF IsBlank(raw)
        THEN [next |-> "return", result |-> Result("", "fallback", 0, raw)]
    ELSE IF normalizeWithDictionary(kind, raw) # <<>>
        THEN [next |-> "return",
              result |-> Result(normalizeWithDictionary(kind, raw)[1].key,
                                "dictionary", 100, raw)]
    ELSE [next |-> "classify", result |-> Result("", "pending", 0, raw)]

\* l.608-637 and l.692-721: the part of normalizeDegreeValue and
\* normalizeEligibilityValue after the load and before the classifier call.
\* The value is the result returned, or "classify" when the classifier is
\* called.
LocalOutcome(kind, raw) ==
    IF IsBlank(raw)
        THEN [next |-> "return", result |-> Result("", "fallback", 0, raw)]
    ELSE IF normalizeWithDictionary(kind, raw) # <<>>
        THEN [next |-> "return",
              result |-> Result(normalizeWithDictionary(kind, raw)[1].key,
                                "dictionary", 100, raw)]
    ELSE IF Len(CandidatesFor(kind, raw)) = 0
        THEN [next |-> "return", result |-> Result("", "fallback", 0, raw)]
    ELSE [next |-> "classify", result |-> Result("", "pending", 0, raw)]

\* What generateContent can produce (./client): an exception, a text that is
\* no JSON, or the JSON text of an object whose canonical_key is missing
\* (""), "UNKNOWN", a key of a dictionary or some other text, with or without
\* a confidence.
NoConfidence == [given |-> FALSE, value |-> 0]

Confidence(percent) == [given |-> TRUE, value |-> percent]

Answer(key, confidence) ==
    [threw |-> FALSE, json |-> TRUE, canonical_key |-> key,
     confidence |-> confidence]

ClassifierThrows ==
    [threw |-> TRUE, json |-> FALSE, canonical_key |-> "",
     confidence |-> NoConfidence]

\* A text that cannot be parsed as JSON.
NotJson ==
    [threw |-> FALSE, json |-> FALSE, canonical_key |-> "",
     confidence |-> NoConfidence]

\* The response slot of a single-item call that did not call the classifier.
NoResponse ==
    [threw |-> FALSE, json |-> FALSE, canonical_key |-> "",
     confidence |-> NoConfidence]

\* "bsit" is a key of the degrees only, "csp" a key of the eligibilities only.
ClassifierResponses ==
    {ClassifierThrows, NotJson,
     Answer("", NoConfidence), Answer("UNKNOWN", Confidence(90)),
     Answer("bsit", NoConfidence), Answer("bsit", Confidence(0)),
     Answer("csp", NoConfidence), Answer("csp", Confidence(90))}

\* parsed.confidence ?? dflt
OrDefault(confidence, dflt) == IF confidence.given THEN confidence.value ELSE dflt

\* parseGeminiJSON of ./client, which is not among the sources: the text is
\* parsed as strict JSON, and a text that is no JSON makes the parser throw.
parseGeminiJSON(text) ==
    [threw |-> ~text.json, canonical_key |-> text.canonical_key,
     confidence |-> text.confidence]

\* ClassifiedOutcome without the catch block (l.673-681, l.755-763): a failed
\* call is reported like an answer without a key.
ClassifiedOutcomeFailureAsAnswer(kind, raw, response) ==
    IF response.threw \/ parseGeminiJSON(response).threw
           \/ response.canonical_key \in {"", "UNKNOWN"}
        THEN Result("", "gemini", OrDefault(response.confidence, 30), raw)
    ELSE IF ~MapHas(ByKeyOf(kind), response.canonical_key)
        THEN Result("", "gemini", OrDefault(response.confidence, 20), raw)
    ELSE Result(response.canonical_key, "gemini",
                OrDefault(response.confidence, 80), raw)

\* ClassifiedOutcome without l.656-665 (l.738-747): the key of the answer is
\* returned whether the dictionary has it or not.
ClassifiedOutcomeTrustsKey(kind, raw, response) ==
    IF response.threw \/ parseGeminiJSON(response).threw
        THEN Result("", "fallback", 0, raw)
    ELSE IF parseGeminiJSON(response).canonical_key \in {"", "UNKNOWN"}
        THEN Result("", "gemini", OrDefault(response.confidence, 30), raw)
    ELSE Result(parseGeminiJSON(response).canonical_key, "gemini",
                OrDefault(response.confidence, 80), raw)

\* l.641-681 and l.725-763: the result for one outcome of generateContent.
\* An exception of generateContent or of parseGeminiJSON is caught at l.673
\* (l.755).
ClassifiedOutcome(kind, raw, response) ==
    IF response.threw \/ parseGeminiJSON(response).threw
        THEN Result("", "fallback", 0, raw)
    ELSE IF parseGeminiJSON(response).canonical_key \in {"", "UNKNOWN"}
        THEN Result("", "gemini",
                    OrDefault(parseGeminiJSON(response).confidence, 30), raw)
    ELSE IF ~MapHas(ByKeyOf(kind), parseGeminiJSON(response).canonical_key)
        THEN Result("", "gemini",
                    OrDefault(parseGeminiJSON(response).confidence, 20), raw)
    ELSE Result(parseGeminiJSON(response).canonical_key, "gemini",
                OrDefault(parseGeminiJSON(response).confidence, 80), raw)

-----------------------------------------------------------------------------
(* Calls of the exported functions.  The job eligibility lines, which the   *)
(* code normalizes under Promise.all (l.976), are taken one after the       *)
(* other: after the load a line's outcome depends on no other line.         *)

NumCallers == 2

Callers == 1..NumCallers

DegreeInputs ==
    {Txt_empty, Txt_blank, Txt_bs_it, Txt_BS_IT, Txt_B_S_IT, Txt_BS_IT_dot,
     Txt_IT, Txt_xyz}

EligibilityInputs ==
    {Txt_empty, Txt_blank, Txt_cpa_padded, Txt_CS_Pro, Txt_CSP, Txt_CS_exam,
     Txt_xyz}

NoJob == [degreeRequirement |-> <<>>, eligibilities |-> <<>>]

NoApplicant == [highestEducationalAttainment |-> <<>>, eligibilities |-> <<>>]

PlainJob ==
    [degreeRequirement |-> Txt_IT, eligibilities |-> <<Txt_blank, Txt_CS_exam>>]

\* A job and an applicant whose texts have list markers.
CompositeJob ==
    [degreeRequirement |-> Txt_IT_AND_xyz_bs_it,
     eligibilities |-> <<Txt_CSP_or_xyz, Txt_comma>>]

CompositeApplicant ==
    [highestEducationalAttainment |-> Txt_xyz_B_S_IT,
     eligibilities |-> <<[eligibilityTitle |-> Txt_blank]>>]

Jobs ==
    {[degreeRequirement |-> Txt_B_S_IT, eligibilities |-> <<Txt_cpa_padded>>],
     PlainJob, CompositeJob}

Applicants ==
    {[highestEducationalAttainment |-> Txt_BS_IT,
      eligibilities |-> <<[eligibilityTitle |-> Txt_CSP]>>],
     NoApplicant, CompositeApplicant}

Word_and == <<"a", "n", "d">>

Word_or == <<"o", "r">>

\* The word, in any case, stands at position i of s before a blank.
WordThenSpace(s, word, i) ==
    /\ i + Len(word) <= Len(s)
    /\ \A k \in 1..Len(word) : LowerChar(s[i + k - 1]) = word[k]
    /\ IsSpace(s[i + Len(word)])

\* /\sand\s/.test(lower) and /\sor\s/.test(lower)  (l.860-861, l.780-781)
HasMarker(trimmed, word) ==
    \E i \in 2..Len(trimmed) :
        IsSpace(trimmed[i - 1]) /\ WordThenSpace(trimmed, word, i)

\* trimmed.includes(',')
HasComma(trimmed) == \E i \in DOMAIN trimmed : trimmed[i] = ","

\* hasAnd || hasOr || hasComma  (l.865, l.785, l.990)
IsComposite(trimmed) ==
    HasMarker(trimmed, Word_and) \/ HasMarker(trimmed, Word_or) \/ HasComma(trimmed)

\* The first position from i on that holds no blank (Len(s) + 1 if none).
RECURSIVE SkipSpaces(_, _)
SkipSpaces(s, i) ==
    IF i > Len(s) \/ ~IsSpace(s[i]) THEN i ELSE SkipSpaces(s, i + 1)

\* The length of the marker word at position j, 0 if there is none; the
\* regular expression tries "or" before "and".
MarkerLength(s, j) ==
    IF WordThenSpace(s, Word_or, j) THEN Len(Word_or)
    ELSE IF WordThenSpace(s, Word_and, j) THEN Len(Word_and)
    ELSE 0

\* s.replace(/\s+(or|and)\s+/gi, ',') from position i on: matches are taken
\* from left to right and do not overlap.
RECURSIVE ReplaceMarkers(_, _)
ReplaceMarkers(s, i) ==
    IF i > Len(s) THEN <<>>
    ELSE IF IsSpace(s[i]) /\ MarkerLength(s, SkipSpaces(s, i)) > 0
        THEN <<",">>
             \o ReplaceMarkers(s, SkipSpaces(s, SkipSpaces(s, i)
                                              + MarkerLength(s, SkipSpaces(s, i))))
    ELSE <<s[i]>> \o ReplaceMarkers(s, i + 1)

\* s.split(','): the parts between the commas, empty ones included.
RECURSIVE SplitCommas(_, _, _)
SplitCommas(s, i, part) ==
    IF i > Len(s) THEN <<part>>
    ELSE IF s[i] = "," THEN <<part>> \o SplitCommas(s, i + 1, <<>>)
    ELSE SplitCommas(s, i + 1, Append(part, s[i]))

\* Tokens without .filter(Boolean): the empty parts stay in the list.
TokensUnfiltered(trimmed) ==
    LET parts == SplitCommas(ReplaceMarkers(trimmed, 1), 1, <<>>)
    IN  [k \in DOMAIN parts |-> trim(parts[k])]

\* l.884-888 and l.791-795: the trimmed, non-empty parts of the text.
Tokens(trimmed) ==
    LET parts == SplitCommas(ReplaceMarkers(trimmed, 1), 1, <<>>)
        trimmedParts == [k \in DOMAIN parts |-> trim(parts[k])]
        nonEmpty(part) == part # <<>>
    IN  SelectSeq(trimmedParts, nonEmpty)

\* Joiner without l.922-928 (l.828-835): the tokens are always joined by
\* " or ".
JoinerAlwaysOr(trimmed) == <<" ">> \o Word_or \o <<" ">>

\* l.920-928 and l.826-835: " and " if the text has an "and", else " or ".
Joiner(trimmed) ==
    IF HasMarker(trimmed, Word_and) THEN <<" ">> \o Word_and \o <<" ">>
    ELSE <<" ">> \o Word_or \o <<" ">>

\* Array.prototype.join
RECURSIVE Join(_, _)
Join(texts, joiner) ==
    IF Len(texts) = 0 THEN <<>>
    ELSE IF Len(texts) = 1 THEN texts[1]
    ELSE texts[1] \o joiner \o Join(Tail(texts), joiner)

\* One call of normalizeDegreeValue or normalizeEligibilityValue to be made
\* by a call of an exported function, and the place its result goes to: the
\* slot, the index of the line, and the number of the token in a text with
\* list markers (0 in a text without).
TokenStep(kind, raw, slot, index, token) ==
    [kind |-> kind, raw |-> raw, slot |-> slot, index |-> index, token |-> token]

Step(kind, raw, slot, index) == TokenStep(kind, raw, slot, index, 0)

\* l.895-918 and l.803-820: one call for each token, in order.
TokenSteps(kind, trimmed, slot, index) ==
    [k \in DOMAIN Tokens(trimmed) |->
        TokenStep(kind, Tokens(trimmed)[k], slot, index, k)]

\* l.855-918: normalizeCompositeDegreeString makes no call for a blank text,
\* one call with the trimmed text when it has no list marker, and one call
\* for each token otherwise.
DegreeSteps(text, slot) ==
    IF trim(text) = <<>> THEN <<>>
    ELSE IF IsComposite(trim(text)) THEN TokenSteps("degree", trim(text), slot, 0)
    ELSE <<Step("degree", trim(text), slot, 0)>>

\* l.976-1017: a job eligibility line that is empty or blank is kept as it
\* is; a line with list markers goes to normalizeCompositeEligibilityLine.
RECURSIVE JobEligibilitySteps(_, _)
JobEligibilitySteps(lines, i) ==
    IF i > Len(lines) THEN <<>>
    ELSE (IF trim(lines[i]) = <<>> THEN <<>>
          ELSE IF IsComposite(trim(lines[i]))
              THEN TokenSteps("eligibility", trim(lines[i]), "jobEligibility", i)
          ELSE <<Step("eligibility", trim(lines[i]), "jobEligibility", i)>>)
         \o JobEligibilitySteps(lines, i + 1)

\* l.1024-1025
ApplicantEligibilitySteps(list) ==
    [i \in DOMAIN list |->
        Step("eligibility", list[i].eligibilityTitle, "applicantEligibility", i)]

\* l.957-1036: the single-item calls of normalizeJobAndApplicant, in order.
JobAndApplicantSteps(job, applicant) ==
    DegreeSteps(job.degreeRequirement, "jobDegree")
    \o DegreeSteps(applicant.highestEducationalAttainment, "applicantDegree")
    \o JobEligibilitySteps(job.eligibilities, 1)
    \o ApplicantEligibilitySteps(applicant.eligibilities)

\* The identity of an object (a record or a list): the owner of the graph it
\* was made for, its place in it, and its index if it is an item of a list.
Ref(owner, place, i) == [owner |-> owner, place |-> place, i |-> i]

\* The objects of a JobRequirements and of an ApplicantData (l.1074-1089):
\* the record, its lists, and the records in the applicant's eligibilities.
\* Strings and numbers are values, not objects.
JobObjects(owner) ==
    [self |-> Ref(owner, "job", 0),
     eligibilities |-> Ref(owner, "job.eligibilities", 0),
     skills |-> Ref(owner, "job.skills", 0)]

ApplicantObjects(owner, applicant) ==
    [self |-> Ref(owner, "applicant", 0),
     eligibilities |-> Ref(owner, "applicant.eligibilities", 0),
     items |-> [i \in DOMAIN applicant.eligibilities |->
                   Ref(owner, "applicant.eligibilities[i]", i)],
     skills |-> Ref(owner, "applicant.skills", 0),
     workExperienceTitles |-> Ref(owner, "applicant.workExperienceTitles", 0)]

\* The job returned is the job given: no copy is made.
SpreadJobNoCopy(given, made) == given

\* l.1038-1046: { ...job, degreeRequirement, eligibilities, ... } is a new
\* record holding the new list of eligibilities; every other field holds what
\* the field of the job given holds.
SpreadJob(given, made) ==
    [given EXCEPT !.self = made.self, !.eligibilities = made.eligibilities]

\* l.1022-1036 and l.1048-1056: { ...applicant, ... } with the list made by
\* map and the records made by { ...e, eligibilityTitle }.
SpreadApplicant(given, made) ==
    [given EXCEPT !.self = made.self, !.eligibilities = made.eligibilities,
                  !.items = made.items]

IdleCall ==
    [pc |-> "idle", fn |-> "none", raw |-> <<>>, job |-> NoJob,
     applicant |-> NoApplicant, todo |-> <<>>, results |-> <<>>,
     outJob |-> NoJob, outApplicant |-> NoApplicant,
     outJobObjects |-> <<>>, outApplicantObjects |-> <<>>,
     arrived |-> "no"]  \* history: what the call found at l.292-296

\* The calls that can be made.  A caller that runs alone draws from all the
\* inputs; callers that overlap are there to contend for the load and draw
\* from a short list.
CallsOf(alone, fn) ==
    IF fn = "degree"
        THEN {[IdleCall EXCEPT !.fn = fn, !.raw = raw,
                               !.todo = <<Step("degree", raw, "value", 0)>>] :
                 raw \in IF alone THEN DegreeInputs ELSE {Txt_BS_IT}}
    ELSE IF fn = "eligibility"
        THEN {[IdleCall EXCEPT !.fn = fn, !.raw = raw,
                               !.todo = <<Step("eligibility", raw, "value", 0)>>] :
                 raw \in IF alone THEN EligibilityInputs ELSE {Txt_CS_exam}}
    ELSE {[IdleCall EXCEPT !.fn = fn, !.job = job, !.applicant = applicant,
                           !.todo = JobAndApplicantSteps(job, applicant)] :
             job \in IF alone THEN Jobs ELSE {PlainJob},
             applicant \in IF alone THEN Applicants ELSE {NoApplicant}}

\* The answers drawn for a caller.
ResponsesFor(alone) ==
    IF alone THEN ClassifierResponses
    ELSE {ClassifierThrows, Answer("csp", Confidence(90))}

ExportedFunctions == {"degree", "eligibility", "jobAndApplicant"}

\* l.870-874, l.1005-1008, l.1026-1029: the canonical name of the key found,
\* or the text given.
CanonicalText(kind, result, text) ==
    IF result.canonicalKey # "" /\ MapHas(ByKeyOf(kind), result.canonicalKey)
        THEN MapGet(ByKeyOf(kind), result.canonicalKey).canonical
    ELSE text

\* The texts made from the results of a place, in the order of its tokens:
\* the canonical name of the key found, or the token given (l.897-908,
\* l.805-811).
ResultTexts(call, slot, index) ==
    LET here(r) == r.slot = slot /\ r.index = index
        made == SelectSeq(call.results, here)
    IN  [k \in DOMAIN made |->
            CanonicalText(made[k].kind, made[k].result, made[k].result.raw)]

\* The text returned for a place: the given text when no call was made for it
\* (l.857-858, l.890-892, l.797-799, l.977-980), the text of the one result
\* of a text without list markers (l.867-880, l.1003-1010), and the texts of
\* the tokens joined otherwise (l.930, l.837).
CompositeText(texts, original, untouched) ==
    IF Len(texts) = 0 THEN untouched
    ELSE IF IsComposite(trim(original)) THEN Join(texts, Joiner(trim(original)))
    ELSE texts[1]

\* canonicalText of normalizeCompositeDegreeString (l.852-933), and the
\* eligibilityTitle of an applicant's eligibility (l.1024-1035).
TextFor(call, slot, index, original) ==
    CompositeText(ResultTexts(call, slot, index), original, original)

\* l.976-1020: the text returned for a job eligibility line.  A line that
\* has list markers but no token comes back trimmed (l.992, l.797-799).
JobEligibilityText(call, i, line) ==
    CompositeText(ResultTexts(call, "jobEligibility", i), line,
                  IF IsComposite(trim(line)) THEN trim(line) ELSE line)

-----------------------------------------------------------------------------
(* ensureDictionariesLoaded (l.291-434).  JavaScript runs a function without *)
(* interruption up to its next await, so an action is the code between two  *)
(* awaits.  The load body awaits only in readFile (l.328, l.346).           *)

indexVars == <<degreesByKey, eligibilitiesByKey, degreeAliasIndex,
               eligibilityAliasIndex, dictionariesLoaded>>

\* l.293 without the test: every caller that finds the dictionaries not
\* loaded starts a load.
LoadInFlightIgnored == FALSE

\* l.293: if (dictionariesLoadingPromise)
LoadInFlight == dictionariesLoadingPromise # "null"

\* l.361-411 and the end of the async closure: parse, rebuild the four maps,
\* set the flag; the promise of the load is then resolved.
FinishLoad(ddoc, edoc) ==
    LET degreesList == parseDegreesYaml(ddoc)
        eligList == parseEligibilitiesYaml(edoc)
    IN  /\ degreesDoc' = ddoc
        /\ eligibilitiesDoc' = edoc
        /\ degreesByKey' = BuildByKey(degreesList, 1, <<>>)
        /\ eligibilitiesByKey' = BuildByKey(eligList, 1, <<>>)
        /\ degreeAliasIndex' = BuildAliasIndex(degreesList, 1, <<>>)
        /\ eligibilityAliasIndex' = BuildAliasIndex(eligList, 1, <<>>)
        /\ dictionariesLoaded' = TRUE
        /\ dictionariesLoadingPromise' = "resolved"
        /\ loadPc' = "done"

\* l.343-359, entered with the degrees document: a missing eligibilities file
\* is not read (no await), an existing one is awaited.
LoadEligibilities(ddoc) ==
    IF eligibilitiesFile.status = "missing" THEN FinishLoad(ddoc, NullDoc)
    ELSE /\ degreesDoc' = ddoc
         /\ eligibilitiesDoc' = NullDoc
         /\ loadPc' = "readEligibilities"
         /\ dictionariesLoadingPromise' = "pending"
         /\ UNCHANGED indexVars

\* l.298-341: the start of the load body, up to its first await.
StartLoad ==
    IF degreesFile.status = "missing" THEN LoadEligibilities(NullDoc)
    ELSE /\ loadPc' = "readDegrees"
         /\ dictionariesLoadingPromise' = "pending"
         /\ degreesDoc' = NullDoc
         /\ eligibilitiesDoc' = NullDoc
         /\ UNCHANGED indexVars

\* An exported function is called: l.606, l.690 or l.946, that is l.291-298
\* and, for the caller that starts the load, the load body up to its first
\* await.
Call(c, fn, alone) ==
    /\ calls[c].pc = "idle"
    /\ \E call \in CallsOf(alone, fn) :
          IF dictionariesLoaded
              THEN /\ calls' = [calls EXCEPT ![c] = [call EXCEPT !.pc = "ready",
                                                       !.arrived = "loaded"]]
                   /\ UNCHANGED <<indexVars, dictionariesLoadingPromise, loadPc,
                                  degreesDoc, eligibilitiesDoc, loadRuns>>
          ELSE IF LoadInFlight
              THEN /\ calls' = [calls EXCEPT ![c] = [call EXCEPT !.pc = "awaitLoad",
                                                       !.arrived = "inFlight"]]
                   /\ UNCHANGED <<indexVars, dictionariesLoadingPromise, loadPc,
                                  degreesDoc, eligibilitiesDoc, loadRuns>>
          ELSE /\ calls' = [calls EXCEPT ![c] = [call EXCEPT !.pc = "awaitLoad",
                                                   !.arrived = "started"]]
               /\ loadRuns' = loadRuns + 1
               /\ StartLoad
    /\ UNCHANGED <<degreesFile, eligibilitiesFile, serviceCalls>>
    /\ UNCHANGED <<rankVars, scoreVars>>

CallDegree == \E c \in Callers : Call(c, "degree", FALSE)

CallEligibility == \E c \in Callers : Call(c, "eligibility", FALSE)

CallJobAndApplicant == \E c \in Callers : Call(c, "jobAndApplicant", FALSE)

\* l.328-341: readFile of degrees.yaml settled; a failure leaves null.
DegreesRead ==
    /\ loadPc = "readDegrees"
    /\ LoadEligibilities(degreesFile.doc)
    /\ UNCHANGED <<degreesFile, eligibilitiesFile, loadRuns, calls, serviceCalls>>
    /\ UNCHANGED <<rankVars, scoreVars>>

\* l.346-411: readFile of eligibilities.yaml settled; the load completes.
EligibilitiesRead ==
    /\ loadPc = "readEligibilities"
    /\ FinishLoad(degreesDoc, eligibilitiesFile.doc)
    /\ UNCHANGED <<degreesFile, eligibilitiesFile, loadRuns, calls, serviceCalls>>
    /\ UNCHANGED <<rankVars, scoreVars>>

\* l.294 and l.433: the awaited load promise is resolved, the caller goes on.
Resume(c) ==
    /\ calls[c].pc = "awaitLoad"
    /\ dictionariesLoadingPromise = "resolved"
    /\ calls' = [calls EXCEPT ![c].pc = "ready"]
    /\ UNCHANGED <<degreesFile, eligibilitiesFile, indexVars,
                   dictionariesLoadingPromise, loadPc, degreesDoc,
                   eligibilitiesDoc, loadRuns, serviceCalls>>
    /\ UNCHANGED <<rankVars, scoreVars>>

ResumeAfterLoad == \E c \in Callers : Resume(c)

-----------------------------------------------------------------------------
(* normalizeDegreeValue, normalizeEligibilityValue, normalizeJobAndApplicant *)

\* The call after one of its single-item calls has returned the result.  A
\* call of normalizeDegreeValue or normalizeEligibilityValue returns it; a
\* call of normalizeJobAndApplicant goes on.
Completed(call, result, asked, response) ==
    [call EXCEPT
        !.results = Append(@, [kind |-> Head(call.todo).kind,
                               slot |-> Head(call.todo).slot,
                               index |-> Head(call.todo).index,
                               token |-> Head(call.todo).token,
                               given |-> Head(call.todo).raw,
                               asked |-> asked,        \* history
                               response |-> response,  \* history
                               result |-> result]),
        !.todo = Tail(@),
        !.pc = IF call.fn = "jobAndApplicant" THEN "ready" ELSE "returned"]

\* l.608-643 (l.692-726): the next single-item call, from the blank test to
\* its return or to the call of generateContent.  Inside
\* normalizeJobAndApplicant the single-item call first passes l.606 (l.690),
\* which returns at l.292.
Proceed(c) ==
    /\ calls[c].pc = "ready"
    /\ calls[c].todo # <<>>
    /\ LET call == calls[c]
           step == Head(call.todo)
           outcome == LocalOutcome(step.kind, step.raw)
       IN  IF outcome.next = "return"
               THEN /\ calls' = [calls EXCEPT
                                   ![c] = Completed(call, outcome.result, FALSE,
                                                    NoResponse)]
                    /\ UNCHANGED serviceCalls
           ELSE /\ calls' = [calls EXCEPT ![c].pc = "awaitAI"]
                /\ serviceCalls' = serviceCalls + 1
    /\ UNCHANGED <<degreesFile, eligibilitiesFile, indexVars,
                   dictionariesLoadingPromise, loadPc, degreesDoc,
                   eligibilitiesDoc, loadRuns>>
    /\ UNCHANGED <<rankVars, scoreVars>>

NormalizeLocally == \E c \in Callers : Proceed(c)

\* l.643-681 (l.726-763): generateContent settled.
ClassifierAnswers(c, response) ==
    /\ calls[c].pc = "awaitAI"
    /\ LET call == calls[c]
           step == Head(call.todo)
       IN  calls' = [calls EXCEPT
                       ![c] = Completed(call,
                                  ClassifiedOutcome(step.kind, step.raw, response),
                                  TRUE, response)]
    /\ UNCHANGED <<degreesFile, eligibilitiesFile, indexVars,
                   dictionariesLoadingPromise, loadPc, degreesDoc,
                   eligibilitiesDoc, loadRuns, serviceCalls>>
    /\ UNCHANGED <<rankVars, scoreVars>>

ClassifierSettles ==
    \E c \in Callers : \E response \in ResponsesFor(FALSE) :
        ClassifierAnswers(c, response)

\* l.1038-1058: normalizeJobAndApplicant returns the copies.
ReturnJobAndApplicant(c) ==
    /\ calls[c].pc = "ready"
    /\ calls[c].fn = "jobAndApplicant"
    /\ calls[c].todo = <<>>
    /\ LET call == calls[c]
           outJob ==
               [degreeRequirement |->
                    TextFor(call, "jobDegree", 0, call.job.degreeRequirement),
                eligibilities |->
                    [i \in DOMAIN call.job.eligibilities |->
                        JobEligibilityText(call, i, call.job.eligibilities[i])]]
           outApplicant ==
               [highestEducationalAttainment |->
                    TextFor(call, "applicantDegree", 0,
                            call.applicant.highestEducationalAttainment),
                eligibilities |->
                    [i \in DOMAIN call.applicant.eligibilities |->
                        [eligibilityTitle |->
                            TextFor(call, "applicantEligibility", i,
                                    call.applicant.eligibilities[i].eligibilityTitle)]]]
       IN  calls' = [calls EXCEPT
                       ![c].outJob = outJob,
                       ![c].outApplicant = outApplicant,
                       ![c].outJobObjects =
                           SpreadJob(JobObjects("caller"), JobObjects("callee")),
                       ![c].outApplicantObjects =
                           SpreadApplicant(
                               ApplicantObjects("caller", call.applicant),
                               ApplicantObjects("callee", call.applicant)),
                       ![c].pc = "returned"]
    /\ UNCHANGED <<degreesFile, eligibilitiesFile, indexVars,
                   dictionariesLoadingPromise, loadPc, degreesDoc,
                   eligibilitiesDoc, loadRuns, serviceCalls>>
    /\ UNCHANGED <<rankVars, scoreVars>>

JobAndApplicantReturns == \E c \in Callers : ReturnJobAndApplicant(c)

InitNorm ==
    /\ RankIdle(<<>>)
    /\ NothingScored
    /\ \E dfile \in FileStates(DegreesYaml), efile \in FileStates(EligibilitiesYaml) :
          NormIdle(dfile, efile, [c \in Callers |-> IdleCall])

NextNorm ==
    \/ CallDegree
    \/ CallEligibility
    \/ CallJobAndApplicant
    \/ DegreesRead
    \/ EligibilitiesRead
    \/ ResumeAfterLoad
    \/ NormalizeLocally
    \/ ClassifierSettles
    \/ JobAndApplicantReturns

SpecNorm == InitNorm /\ [][NextNorm]_vars

\* The same functions with one caller: caller 1 makes a call and the call
\* runs to its end with no other call in progress.
OneCallsDegree == Call(1, "degree", TRUE)

OneCallsEligibility == Call(1, "eligibility", TRUE)

OneCallsJobAndApplicant == Call(1, "jobAndApplicant", TRUE)

OneClassifierSettles ==
    \E response \in ResponsesFor(TRUE) : ClassifierAnswers(1, response)

NextOneCaller ==
    \/ OneCallsDegree
    \/ OneCallsEligibility
    \/ OneCallsJobAndApplicant
    \/ DegreesRead
    \/ EligibilitiesRead
    \/ ResumeAfterLoad
    \/ NormalizeLocally
    \/ OneClassifierSettles
    \/ JobAndApplicantReturns

SpecOneCaller == InitNorm /\ [][NextOneCaller]_vars

-----------------------------------------------------------------------------
(* Properties of the dictionary loader and the normalizers *)

\* The caller has passed its await of ensureDictionariesLoaded.
PastEnsure(c) == calls[c].pc \in {"ready", "awaitAI", "returned"}

LoadBodyRunning == loadPc \in {"readDegrees", "readEligibilities"}

\* C9: however many calls of normalizeDegreeValue, normalizeEligibilityValue
\* and normalizeJobAndApplicant overlap, the load body is started at most
\* once, by the first caller; a caller that arrives while the load body is
\* running starts nothing and waits for that load; and no caller goes past
\* ensureDictionariesLoaded before the load has completed.
C9_SingleFlightLoad ==
    /\ [](/\ loadRuns <= 1
          /\ (\E c \in Callers : calls[c].pc # "idle") => loadRuns = 1
          /\ \A c \in Callers :
                PastEnsure(c) => dictionariesLoaded /\ loadPc = "done")
    /\ [][\A c \in Callers :
            (calls[c].pc = "idle" /\ calls'[c].pc # "idle" /\ LoadBodyRunning)
                => /\ calls'[c].pc = "awaitLoad"
                   /\ loadRuns' = loadRuns
                   /\ loadPc' = loadPc
                   /\ dictionariesLoadingPromise' = dictionariesLoadingPromise]_vars

\* Two calls of different functions overlapped: one started the load, the
\* other arrived while it was running, and both have returned.
C9_Witness ==
    \E c, d \in Callers :
        /\ calls[c].arrived = "started"
        /\ calls[d].arrived = "inFlight"
        /\ calls[c].fn # calls[d].fn
        /\ calls[c].pc = "returned"
        /\ calls[d].pc = "returned"
        /\ loadRuns = 1

\* The results of the calls of normalizeEligibilityValue made so far,
\* directly or by normalizeJobAndApplicant; likewise for the degrees.
ResultsOfKind(kind) ==
    {r \in UNION {Range(calls[c].results) : c \in Callers} : r.kind = kind}

DegreesOnly ==
    degreesFile.status = "valid" /\ eligibilitiesFile.status = "missing"

Entries(kind) == [i \in DOMAIN ByKeyOf(kind) |-> ByKeyOf(kind)[i].v]

\* The texts of a dictionary entry: its canonical name and its aliases.
TextsOf(entry) == {entry.canonical} \cup Range(entry.aliases)

\* An earlier entry has a text with the normalized form of this text.
ClaimedBefore(kind, i, text) ==
    \E j \in 1..(i - 1) :
        \E t \in TextsOf(Entries(kind)[j]) : normalizeKey(t) = normalizeKey(text)

\* The single-item results made for this text once the load was over.
ResultsFor(kind, text) == {r \in ResultsOfKind(kind) : r.given = text}

\* C12 as stated: every canonical name resolves to the key of its own entry.
C12_Original ==
    dictionariesLoaded =>
        \A kind \in {"degree", "eligibility"} :
            \A i \in DOMAIN Entries(kind) :
                LocalOutcome(kind, Entries(kind)[i].canonical).result.canonicalKey
                    = Entries(kind)[i].key

\* C12: for every entry e of a loaded dictionary whose canonical name c is not
\* blank and has a normalized form that no earlier entry of that dictionary
\* has among its canonical name and aliases, the single-item normalizer
\* returns key e.key, method dictionary and confidence 1 for c without
\* calling the classifier.  When an earlier entry has that normalized form,
\* the key returned is the key of the first such entry; a blank canonical
\* name comes back with no key and method fallback.
C12_CanonicalNamesResolve ==
    dictionariesLoaded =>
        \A kind \in {"degree", "eligibility"} :
            \A i \in DOMAIN Entries(kind) :
                LET e == Entries(kind)[i]
                    local == LocalOutcome(kind, e.canonical)
                IN  /\ local.next = "return"
                    /\ \A r \in ResultsFor(kind, e.canonical) :
                          ~r.asked /\ r.result = local.result
                    /\ IF IsBlank(e.canonical)
                          THEN local.result = Result("", "fallback", 0, e.canonical)
                       ELSE /\ local.result.method = "dictionary"
                            /\ local.result.confidence = 100
                            /\ local.result.raw = e.canonical
                            /\ ~ClaimedBefore(kind, i, e.canonical)
                                  => local.result.canonicalKey = e.key
                            /\ ClaimedBefore(kind, i, e.canonical)
                                  => \E j \in 1..(i - 1) :
                                        /\ ~ClaimedBefore(kind, j, e.canonical)
                                        /\ local.result.canonicalKey
                                              = Entries(kind)[j].key

\* normalizeJobAndApplicant has returned after normalizing the canonical name
\* of a degree that resolves to its own entry and one that resolves to an
\* earlier entry.
C12_Witness ==
    /\ dictionariesLoaded
    /\ \E r \in ResultsFor("degree", Txt_BS_IT) : r.result.canonicalKey = "bsit"
    /\ \E r \in ResultsFor("degree", Txt_B_S_IT) : r.result.canonicalKey = "bsit"
    /\ \E i \in DOMAIN Entries("degree") :
          /\ Entries("degree")[i].canonical = Txt_B_S_IT
          /\ Entries("degree")[i].key = "bsinfotech"

\* The places of a call of normalizeJobAndApplicant that go through
\* normalizeCompositeDegreeString or normalizeCompositeEligibilityLine, with
\* the text given and the text returned.
Place(slot, index, text, out) ==
    [slot |-> slot, index |-> index, text |-> text, out |-> out]

Places(call) ==
    {Place("jobDegree", 0, call.job.degreeRequirement,
           call.outJob.degreeRequirement),
     Place("applicantDegree", 0, call.applicant.highestEducationalAttainment,
           call.outApplicant.highestEducationalAttainment)}
    \cup {Place("jobEligibility", i, call.job.eligibilities[i],
                call.outJob.eligibilities[i]) : i \in DOMAIN call.job.eligibilities}

\* The results a call made for a place, in the order they were made.
ResultsAt(call, place) ==
    LET here(r) == r.slot = place.slot /\ r.index = place.index
    IN  SelectSeq(call.results, here)

\* The canonical name of the entry a result names, or the token given.
Replaced(r) ==
    IF r.result.canonicalKey # ""
        THEN MapGet(ByKeyOf(r.kind), r.result.canonicalKey).canonical
    ELSE r.given

Txt_and_joiner == <<" ", "a", "n", "d", " ">>

Txt_or_joiner == <<" ", "o", "r", " ">>

\* The call has returned and the place held a text with list markers and at
\* least one token.
CompositePlaces(call) ==
    {p \in Places(call) :
        IsComposite(trim(p.text)) /\ Tokens(trim(p.text)) # <<>>}

\* C13: for a text with " and ", " or " or a comma, the composite normalizers
\* call the single-item normalizer once for each non-empty token, in order,
\* and return the tokens, each replaced by the canonical name of the key its
\* result carries (whatever the method) and left as given otherwise, joined
\* by " and " when the text has an "and" between blanks and by " or "
\* otherwise.
C13_CompositeTokensJoined ==
    \A c \in Callers :
        (calls[c].fn = "jobAndApplicant" /\ calls[c].pc = "returned") =>
            \A p \in CompositePlaces(calls[c]) :
                LET made == ResultsAt(calls[c], p)
                IN  /\ [k \in DOMAIN made |-> made[k].given] = Tokens(trim(p.text))
                    /\ \A k \in DOMAIN made : made[k].token = k
                    /\ p.out = Join([k \in DOMAIN made |-> Replaced(made[k])],
                                    IF HasMarker(trim(p.text), Word_and)
                                        THEN Txt_and_joiner
                                    ELSE Txt_or_joiner)

\* normalizeJobAndApplicant has returned a job degree of three tokens joined
\* by " and ", one resolved by the classifier, one left as given and one
\* resolved by the dictionary, an applicant degree whose comma became " or ",
\* and an eligibility line joined by " or ".
C13_Witness ==
    \E c \in Callers :
        /\ calls[c].fn = "jobAndApplicant" /\ calls[c].pc = "returned"
        /\ calls[c].job = CompositeJob
        /\ calls[c].applicant = CompositeApplicant
        /\ calls[c].outJob.degreeRequirement
              = Txt_BS_IT \o Txt_and_joiner \o Txt_xyz \o Txt_and_joiner \o Txt_BS_IT
        /\ \E r \in Range(calls[c].results) :
              r.slot = "jobDegree" /\ r.token = 1 /\ r.result.method = "gemini"
        /\ calls[c].outApplicant.highestEducationalAttainment
              = Txt_xyz \o Txt_or_joiner \o Txt_BS_IT
        /\ calls[c].outJob.eligibilities[1] = Txt_CS_Pro \o Txt_or_joiner \o Txt_xyz

\* The objects reachable from a job and from an applicant.
ReachableFromJob(objects) ==
    {objects.self, objects.eligibilities, objects.skills}

ReachableFromApplicant(objects) ==
    {objects.self, objects.eligibilities, objects.skills,
     objects.workExperienceTitles} \cup Range(objects.items)

ReturnedCalls ==
    {c \in Callers : calls[c].fn = "jobAndApplicant" /\ calls[c].pc = "returned"}

\* A call of normalizeJobAndApplicant leaves the records it was given as they
\* were.
InputsKept ==
    \A c \in Callers :
        calls[c].fn = "jobAndApplicant" =>
            /\ calls'[c].job = calls[c].job
            /\ calls'[c].applicant = calls[c].applicant

\* C14 as stated: nothing reachable from the records returned is an object
\* reachable from the records given.
C14_Original ==
    \A c \in ReturnedCalls :
        /\ ReachableFromJob(calls[c].outJobObjects)
              \cap ReachableFromJob(JobObjects("caller")) = {}
        /\ ReachableFromApplicant(calls[c].outApplicantObjects)
              \cap ReachableFromApplicant(
                       ApplicantObjects("caller", calls[c].applicant)) = {}

\* The copies are one level deep: the records returned, their eligibilities
\* lists and the records in the applicant's eligibilities are new objects;
\* the skills lists and workExperienceTitles are the lists of the inputs.
ShallowCopies ==
    \A c \in ReturnedCalls :
        LET job == calls[c].outJobObjects
            applicant == calls[c].outApplicantObjects
            givenJob == JobObjects("caller")
            givenApplicant == ApplicantObjects("caller", calls[c].applicant)
        IN  /\ job.self \notin ReachableFromJob(givenJob)
            /\ job.eligibilities \notin ReachableFromJob(givenJob)
            /\ job.skills = givenJob.skills
            /\ applicant.self \notin ReachableFromApplicant(givenApplicant)
            /\ applicant.eligibilities \notin ReachableFromApplicant(givenApplicant)
            /\ Range(applicant.items)
                  \cap ReachableFromApplicant(givenApplicant) = {}
            /\ Len(applicant.items) = Len(calls[c].applicant.eligibilities)
            /\ applicant.skills = givenApplicant.skills
            /\ applicant.workExperienceTitles = givenApplicant.workExperienceTitles

\* C14: normalizeJobAndApplicant never modifies the job and applicant records
\* it is given, and returns new records with new eligibilities lists (and new
\* records in the applicant's list); the other lists of the records returned,
\* skills and workExperienceTitles, are the very lists of the inputs.
C14_InputsKeptCopiesShallow == []ShallowCopies /\ [][InputsKept]_vars

\* A call has returned for an applicant with an eligibility and a job whose
\* texts were replaced by canonical names.
C14_Witness ==
    \E c \in ReturnedCalls :
        /\ calls[c].applicant.eligibilities # <<>>
        /\ calls[c].outJob # calls[c].job
        /\ calls[c].outApplicant # calls[c].applicant
        /\ calls[c].outJobObjects.skills = JobObjects("caller").skills

\* The single-item results in which the classifier call failed.
FailedCalls(kind) == {r \in ResultsOfKind(kind) : r.asked /\ r.response.threw}

\* C11: when the call to the text-generation service fails during
\* normalizeDegreeValue or normalizeEligibilityValue, the function still
\* returns a result: no canonical key, method fallback, confidence 0 and raw
\* equal to the input.
C11_ServiceFailureFallsBack ==
    \A kind \in {"degree", "eligibility"} :
        \A r \in FailedCalls(kind) :
            r.result = Result("", "fallback", 0, r.given)

\* A call of normalizeJobAndApplicant has returned although the classifier
\* failed in its call of normalizeDegreeValue and in its call of
\* normalizeEligibilityValue.
C11_Witness ==
    \E c \in Callers :
        /\ calls[c].pc = "returned"
        /\ \E r \in Range(calls[c].results) :
              r \in FailedCalls("degree") /\ ~IsBlank(r.given)
        /\ \E r \in Range(calls[c].results) :
              r \in FailedCalls("eligibility") /\ ~IsBlank(r.given)

\* The entries of the dictionary of the kind whose canonical name shares a
\* token with the text.
SimilarEntries(kind, raw) ==
    {i \in DOMAIN Entries(kind) :
        basicTokenSimilarity(raw, Entries(kind)[i].canonical).num > 0}

\* The text has an entry in the alias index of the kind.
AliasHit(kind, raw) == MapHas(AliasIndexOf(kind), normalizeKey(raw))

\* The single-item calls that are waiting for the text-generation service.
AwaitingService == {c \in Callers : calls[c].pc = "awaitAI"}

\* The single-item calls that have returned after calling the service.
AskedResults ==
    {<<c, i>> \in Callers \X (1..8) :
        i \in DOMAIN calls[c].results /\ calls[c].results[i].asked}

\* C18: a single-item normalization calls the text-generation service only
\* when the input is not blank, has no entry in the alias index and shares
\* a token with the canonical name of at least one dictionary entry, and it
\* offers at most 20 candidates (at most limit candidates for every limit);
\* otherwise it returns without a service call: blank input gives no key,
\* fallback, 0; an alias hit gives the key, dictionary, 1; no candidate gives
\* no key, fallback, 0.
C18_ServiceCalledOnlyWithCandidates ==
    /\ serviceCalls = Cardinality(AskedResults) + Cardinality(AwaitingService)
    /\ \A c \in AwaitingService :
          LET step == Head(calls[c].todo)
          IN  /\ ~IsBlank(step.raw)
              /\ ~AliasHit(step.kind, step.raw)
              /\ SimilarEntries(step.kind, step.raw) # {}
              /\ Len(CandidatesFor(step.kind, step.raw)) <= CandidateLimit
              /\ \A limit \in 0..Len(Entries(step.kind)) :
                    Len(getTopCandidates(ByKeyOf(step.kind), step.raw, limit))
                        = Min2(limit,
                               Cardinality(SimilarEntries(step.kind, step.raw)))
    /\ \A kind \in {"degree", "eligibility"} :
          \A r \in ResultsOfKind(kind) :
              /\ r.asked <=> /\ ~IsBlank(r.given)
                             /\ ~AliasHit(kind, r.given)
                             /\ SimilarEntries(kind, r.given) # {}
              /\ IsBlank(r.given) => r.result = Result("", "fallback", 0, r.given)
              /\ ~IsBlank(r.given) /\ AliasHit(kind, r.given) =>
                     /\ r.result.canonicalKey
                            = MapGet(AliasIndexOf(kind), normalizeKey(r.given)).key
                     /\ r.result.method = "dictionary"
                     /\ r.result.confidence = 100
                     /\ r.result.raw = r.given
              /\ /\ ~IsBlank(r.given)
                 /\ ~AliasHit(kind, r.given)
                 /\ SimilarEntries(kind, r.given) = {}
                 => r.result = Result("", "fallback", 0, r.given)

\* One call of normalizeJobAndApplicant has decided a blank text, a text of
\* the alias index and a text without a candidate with no service call, and
\* has called the service for a text with more than one candidate.
C18_Witness ==
    \E c \in Callers :
        /\ calls[c].pc = "returned"
        /\ serviceCalls > 0
        /\ \E r \in Range(calls[c].results) : IsBlank(r.given) /\ ~r.asked
        /\ \E r \in Range(calls[c].results) :
              r.result.method = "dictionary" /\ ~r.asked
        /\ \E r \in Range(calls[c].results) :
              /\ ~IsBlank(r.given) /\ ~r.asked
              /\ r.result.method = "fallback"
              /\ Len(Entries(r.kind)) > 0
        /\ \E r \in Range(calls[c].results) :
              r.asked /\ Cardinality(SimilarEntries(r.kind, r.given)) > 1

\* The single-item calls of the kind that got a text from the service.
AnsweredCalls(kind) ==
    {r \in ResultsOfKind(kind) : r.asked /\ ~r.response.threw}

\* What C19 and its original have in common: an answer of UNKNOWN or without
\* a key gives no key with the confidence returned or 0.3, a key that the
\* dictionary of the kind does not have gives no key with the confidence
\* returned or 0.2, both with the method of the classifier; a key is
\* returned with that method only when the dictionary has it.
KeyOnlyFromDictionary(kind, r) ==
    /\ r.response.json /\ r.response.canonical_key \in {"", "UNKNOWN"} =>
           r.result = Result("", "gemini",
                             OrDefault(r.response.confidence, 30), r.given)
    /\ /\ r.response.json
       /\ r.response.canonical_key \notin {"", "UNKNOWN"}
       /\ ~MapHas(ByKeyOf(kind), r.response.canonical_key)
       => r.result = Result("", "gemini",
                            OrDefault(r.response.confidence, 20), r.given)
    /\ r.result.canonicalKey # "" =>
           /\ r.response.json
           /\ r.result.canonicalKey = r.response.canonical_key
           /\ MapHas(ByKeyOf(kind), r.result.canonicalKey)
           /\ r.result.method = "gemini"

SourceList(kind) ==
    IF kind = "degree" THEN parseDegreesYaml(degreesDoc)
    ELSE parseEligibilitiesYaml(eligibilitiesDoc)

\* The places in the source list of the entries that have a text, canonical
\* or alias, with this normalized form.
Claimants(kind, nk) ==
    {j \in DOMAIN SourceList(kind) :
        \E t \in TextsOf(SourceList(kind)[j]) : normalizeKey(t) = nk}

\* The normalized forms of all the texts of the source list.
NormalizedTexts(kind) ==
    {normalizeKey(t) : t \in UNION {TextsOf(SourceList(kind)[j]) :
                                       j \in DOMAIN SourceList(kind)}}

FileList(kind) ==
    IF kind = "degree" THEN parseDegreesYaml(degreesFile.doc)
    ELSE parseEligibilitiesYaml(eligibilitiesFile.doc)

DictionaryMaps ==
    <<degreesByKey, eligibilitiesByKey, degreeAliasIndex, eligibilityAliasIndex>>

\* The four maps as the module creates them (l.122-127).
MapsUntouched == DictionaryMaps = <<(<<>>), (<<>>), (<<>>), (<<>>)>>

\* The four maps hold everything the two files give: every key and every
\* normalized text of every entry.
MapsComplete ==
    \A kind \in {"degree", "eligibility"} :
        /\ {ByKeyOf(kind)[i].k : i \in DOMAIN ByKeyOf(kind)}
               = {FileList(kind)[j].key : j \in DOMAIN FileList(kind)}
        /\ {AliasIndexOf(kind)[i].k : i \in DOMAIN AliasIndexOf(kind)}
               = {normalizeKey(t) :
                     t \in UNION {TextsOf(FileList(kind)[j]) :
                                     j \in DOMAIN FileList(kind)}}

\* C21: once the dictionary load has completed, the two by-key maps and the
\* two alias indexes never change again, and the replacement is
\* all-or-nothing: until the load completes the maps are as the module
\* created them, and every normalization call that has passed
\* ensureDictionariesLoaded finds the maps completely rebuilt.
C21_MapsFrozenAfterLoad ==
    /\ [](/\ ~dictionariesLoaded => MapsUntouched
          /\ dictionariesLoaded => MapsComplete
          /\ \A c \in Callers : PastEnsure(c) => dictionariesLoaded)
    /\ [][dictionariesLoaded =>
             /\ dictionariesLoaded'
             /\ DictionaryMaps' = DictionaryMaps]_vars

\* Both files were read and indexed; the caller that started the load has
\* returned, and a call that arrived after the load is using the maps.
C21_Witness ==
    /\ dictionariesLoaded
    /\ Len(degreeAliasIndex) > 1 /\ Len(eligibilityAliasIndex) > 1
    /\ Len(degreesByKey) > 1 /\ Len(eligibilitiesByKey) > 1
    /\ \E c, d \in Callers :
          /\ calls[c].arrived = "started" /\ calls[c].pc = "returned"
          /\ calls[d].arrived = "loaded" /\ calls[d].pc \in {"ready", "awaitAI"}


-----------------------------------------------------------------------------
(* Scoring (part_000 l.1074-2017): text helpers.                            *)
(* A score is an integer number of thousandths of a point: 100 points are   *)
(* 100000.  A quotient is rounded to the nearest thousandth.                *)

Points(n) == n * 1000

\* a / b for a >= 0, b > 0, rounded to the nearest integer.
RoundDiv(a, b) == (2 * a + b) \div (2 * b)

\* Math.round(x * 100) / 100 for x >= 0 in thousandths.
Round2(x) == ((x + 5) \div 10) * 10

\* str.startsWith(sub, i - 1)
StartsAt(s, sub, i) ==
    /\ i >= 1
    /\ i + Len(sub) - 1 <= Len(s)
    /\ \A k \in 1..Len(sub) : s[i + k - 1] = sub[k]

\* str.includes(sub)
Includes(s, sub) == \E i \in 1..(Len(s) - Len(sub) + 1) : StartsAt(s, sub, i)

StopWords == {<<"t", "h", "e">>, <<"a", "n", "d">>, <<"f", "o", "r">>,
              <<"w", "i", "t", "h">>}

\* l.1107-1113: the tokens of a text, longer than two characters and not
\* stop words, in order and with repetitions.
normalizeSkill(skill) ==
    LET long(token) == Len(token) > 2 /\ token \notin StopWords
    IN  SelectSeq(Words(StripPunctuation(toLowerCase(skill))), long)

\* jobTokens.filter(token => appTokens.includes(token)).length
CommonTokens(jobTokens, appTokens) ==
    Cardinality({i \in DOMAIN jobTokens : jobTokens[i] \in Range(appTokens)})

\* The least element of a non-empty set of numbers.
SetMin(S) == CHOOSE x \in S : \A y \in S : x <= y

\* l.1133-1141: row i of the matrix from row i - 1; entry j is at place
\* j + 1.  An entry is the least of its three candidates; the one taken from
\* the entry to its left is unfolded, so that entry j is the least of
\* fromAbove[k] + (j - k) over the columns k <= j.
LevenshteinRow(str1, str2, i, prev) ==
    LET fromAbove ==
            [k \in 0..Len(str2) |->
                IF k = 0 THEN i
                ELSE Min2(prev[k + 1] + 1,
                          prev[k] + (IF str1[i] = str2[k] THEN 0 ELSE 1))]
    IN  [j1 \in 1..(Len(str2) + 1) |->
            SetMin({fromAbove[k] + (j1 - 1 - k) : k \in 0..(j1 - 1)})] \o <<>>

RECURSIVE LevenshteinRows(_, _, _, _)
LevenshteinRows(str1, str2, i, prev) ==
    IF i > Len(str1) THEN prev[Len(str2) + 1]
    ELSE LET row == LevenshteinRow(str1, str2, i, prev)
         IN  IF row[1] = i THEN LevenshteinRows(str1, str2, i + 1, row)
             ELSE -1  \* not reached: matrix[i][0] is i (l.1126)

\* l.1119-1145
levenshteinDistance(str1, str2) ==
    LevenshteinRows(str1, str2, 1, [j \in 1..(Len(str2) + 1) |-> j - 1] \o <<>>)

\* l.1155-1162: the similarity of two texts already lower-cased and trimmed.
SimilarityOfTrimmed(s1, s2) ==
    IF s1 = s2 THEN Points(100)
    ELSE IF Len(s1) = 0 \/ Len(s2) = 0 THEN 0
    ELSE Max2(0, Min2(Points(100),
                      RoundDiv((Max2(Len(s1), Len(s2)) - levenshteinDistance(s1, s2))
                                   * Points(100),
                               Max2(Len(s1), Len(s2)))))

\* l.1151-1163
stringSimilarity(str1, str2) ==
    SimilarityOfTrimmed(trim(toLowerCase(str1)), trim(toLowerCase(str2)))

ContaminationMarkers ==
    {<<"e", "l", "i", "g", "i", "b", "i", "l", "i", "t", "i", "e", "s", ":">>,
     <<"s", "k", "i", "l", "l", "s", ":">>,
     <<"e", "x", "p", "e", "r", "i", "e", "n", "c", "e", ":">>}

\* l.1180-1185: the text before the first blank run that is followed by
\* "Eligibilities:", "Skills:" or "Experience:" (in any case), trimmed.
cleanDegreeRequirement(degreeReq) ==
    LET lower == toLowerCase(degreeReq)
        cuts == {i \in DOMAIN degreeReq :
                    /\ IsSpace(degreeReq[i])
                    /\ \E j \in i..Len(degreeReq) :
                          /\ \A k \in i..j : IsSpace(degreeReq[k])
                          /\ \E m \in ContaminationMarkers : StartsAt(lower, m, j + 1)}
    IN  IF cuts = {} THEN trim(degreeReq)
        ELSE trim(SubSeq(degreeReq, 1, (CHOOSE i \in cuts : \A j \in cuts : i <= j) - 1))

OrSeparator == <<" ", "o", "r", " ">>

\* l.1242: cleanedJobDegree.split(/ or /i)
RECURSIVE SplitOr(_)
SplitOr(s) ==
    LET at == {i \in DOMAIN s : StartsAt(toLowerCase(s), OrSeparator, i)}
        first == CHOOSE i \in at : \A j \in at : i <= j
    IN  IF at = {} THEN <<s>>
        ELSE <<SubSeq(s, 1, first - 1)>>
             \o SplitOr(SubSeq(s, first + Len(OrSeparator), Len(s)))

\* degree.match(/\b<word>\s+(.+)$/i): the text after the first occurrence of
\* the word that starts at a word boundary and is followed by a blank and at
\* least one more character; <<>> stands for no match.
TextAfterWord(degree, word) ==
    LET lower == toLowerCase(degree)
        at == {i \in DOMAIN degree :
                  /\ StartsAt(lower, word, i)
                  /\ (i = 1 \/ ~IsWordChar(degree[i - 1]))
                  /\ i + Len(word) + 1 <= Len(degree)
                  /\ IsSpace(degree[i + Len(word)])}
        first == CHOOSE i \in at : \A j \in at : i <= j
    IN  IF at = {} THEN [matched |-> FALSE, text |-> <<>>]
        ELSE [matched |-> TRUE,
              text |-> trim(SubSeq(degree, first + Len(word) + 1, Len(degree)))]

\* l.1200-1211
extractDegreeField(degree) ==
    LET inMatch == TextAfterWord(degree, <<"i", "n">>)
        ofMatch == TextAfterWord(degree, <<"o", "f">>)
    IN  IF inMatch.matched THEN inMatch.text
        ELSE IF ofMatch.matched THEN ofMatch.text
        ELSE trim(degree)

\* l.1250-1264: the loop over the options of an OR requirement.
RECURSIVE BestOption(_, _, _, _)
BestOption(degreeOptions, applicantField, i, maxScore) ==
    IF i > Len(degreeOptions) THEN maxScore
    ELSE LET requiredField == extractDegreeField(trim(degreeOptions[i]))
             similarity == stringSimilarity(requiredField, applicantField)
         IN  IF similarity >= Points(85) THEN Points(100)
             ELSE BestOption(degreeOptions, applicantField, i + 1,
                             Max2(maxScore, similarity))

\* l.1237-1269
matchDegreeRequirement(jobDegree, applicantDegree) ==
    LET cleanedJobDegree == cleanDegreeRequirement(jobDegree)
        degreeOptions == SplitOr(cleanedJobDegree)
    IN  IF Len(degreeOptions) > 1
            THEN BestOption(degreeOptions, extractDegreeField(applicantDegree), 1, 0)
        ELSE stringSimilarity(cleanedJobDegree, applicantDegree)

-----------------------------------------------------------------------------
(* Scoring: the component scores *)

\* Math.min(x, 100)  (l.1341, l.1395, l.1554 and their copies)
CapAt100Missing(x) == x

CapAt100(x) == Min2(x, Points(100))

\* The greatest element of a non-empty set of numbers.
SetMax(S) == CHOOSE x \in S : \A y \in S : x >= y

RECURSIVE SumSeq(_, _)
SumSeq(s, i) == IF i > Len(s) THEN 0 ELSE s[i] + SumSeq(s, i + 1)

\* l.1375
degreeLevels ==
    <<<<"e", "l", "e", "m", "e", "n", "t", "a", "r", "y">>,
      <<"s", "e", "c", "o", "n", "d", "a", "r", "y">>,
      <<"v", "o", "c", "a", "t", "i", "o", "n", "a", "l">>,
      <<"b", "a", "c", "h", "e", "l", "o", "r">>,
      <<"m", "a", "s", "t", "e", "r">>,
      <<"d", "o", "c", "t", "o", "r", "a", "l">>,
      <<"g", "r", "a", "d", "u", "a", "t", "e", " ", "s", "t", "u", "d", "i", "e", "s">>>>

\* degreeLevels.indexOf(degreeLevels.find(level => degree.includes(level))) + 1,
\* 0 when no level is found.
LevelOf(degree) ==
    LET found == {i \in DOMAIN degreeLevels : Includes(degree, degreeLevels[i])}
    IN  IF found = {} THEN 0 ELSE CHOOSE i \in found : \A j \in found : i <= j

\* l.1379-1399 (l.1668-1687, l.1860-1879)
AdjustForLevel(educationScore, jobDegree, applicantDegree) ==
    LET jobLevel == LevelOf(jobDegree)
        applicantLevel == LevelOf(applicantDegree)
        sameLevel == IF jobLevel # applicantLevel THEN educationScore
                     ELSE IF educationScore >= Points(40)
                         THEN Max2(educationScore, Points(60))
                     ELSE Max2(educationScore, Points(40))
    IN  IF jobLevel = 0 \/ applicantLevel = 0 THEN educationScore
        ELSE IF applicantLevel > jobLevel THEN CapAt100(sameLevel + Points(15))
        ELSE IF applicantLevel < jobLevel THEN Max2(sameLevel - Points(20), Points(30))
        ELSE sameLevel

\* l.1402-1413
relatedFields ==
    <<[field |-> <<"i", "n", "f", "o", "r", "m", "a", "t", "i", "o", "n", " ", "t", "e", "c", "h", "n", "o", "l", "o", "g", "y">>,
       related |-> <<<<"c", "o", "m", "p", "u", "t", "e", "r", " ", "s", "c", "i", "e", "n", "c", "e">>,
                    <<"s", "o", "f", "t", "w", "a", "r", "e", " ", "e", "n", "g", "i", "n", "e", "e", "r", "i", "n", "g">>,
                    <<"i", "n", "f", "o", "r", "m", "a", "t", "i", "o", "n", " ", "s", "y", "s", "t", "e", "m", "s">>>>],
      [field |-> <<"c", "o", "m", "p", "u", "t", "e", "r", " ", "s", "c", "i", "e", "n", "c", "e">>,
       related |-> <<<<"i", "n", "f", "o", "r", "m", "a", "t", "i", "o", "n", " ", "t", "e", "c", "h", "n", "o", "l", "o", "g", "y">>,
                    <<"s", "o", "f", "t", "w", "a", "r", "e", " ", "e", "n", "g", "i", "n", "e", "e", "r", "i", "n", "g">>,
                    <<"c", "o", "m", "p", "u", "t", "e", "r", " ", "e", "n", "g", "i", "n", "e", "e", "r", "i", "n", "g">>>>],
      [field |-> <<"c", "i", "v", "i", "l", " ", "e", "n", "g", "i", "n", "e", "e", "r", "i", "n", "g">>,
       related |-> <<<<"a", "r", "c", "h", "i", "t", "e", "c", "t", "u", "r", "e">>,
                    <<"s", "t", "r", "u", "c", "t", "u", "r", "a", "l", " ", "e", "n", "g", "i", "n", "e", "e", "r", "i", "n", "g">>,
                    <<"c", "o", "n", "s", "t", "r", "u", "c", "t", "i", "o", "n", " ", "m", "a", "n", "a", "g", "e", "m", "e", "n", "t">>>>],
      [field |-> <<"n", "u", "r", "s", "i", "n", "g">>,
       related |-> <<<<"m", "i", "d", "w", "i", "f", "e", "r", "y">>,
                    <<"h", "e", "a", "l", "t", "h", " ", "s", "c", "i", "e", "n", "c", "e", "s">>,
                    <<"m", "e", "d", "i", "c", "a", "l", " ", "t", "e", "c", "h", "n", "o", "l", "o", "g", "y">>>>],
      [field |-> <<"a", "c", "c", "o", "u", "n", "t", "i", "n", "g">>,
       related |-> <<<<"f", "i", "n", "a", "n", "c", "e">>,
                    <<"b", "u", "s", "i", "n", "e", "s", "s", " ", "a", "d", "m", "i", "n", "i", "s", "t", "r", "a", "t", "i", "o", "n">>>>],
      [field |-> <<"o", "f", "f", "i", "c", "e", " ", "a", "d", "m", "i", "n", "i", "s", "t", "r", "a", "t", "i", "o", "n">>,
       related |-> <<<<"p", "u", "b", "l", "i", "c", " ", "a", "d", "m", "i", "n", "i", "s", "t", "r", "a", "t", "i", "o", "n">>,
                    <<"b", "u", "s", "i", "n", "e", "s", "s", " ", "a", "d", "m", "i", "n", "i", "s", "t", "r", "a", "t", "i", "o", "n">>,
                    <<"s", "e", "c", "r", "e", "t", "a", "r", "i", "a", "l">>>>],
      [field |-> <<"p", "u", "b", "l", "i", "c", " ", "a", "d", "m", "i", "n", "i", "s", "t", "r", "a", "t", "i", "o", "n">>,
       related |-> <<<<"o", "f", "f", "i", "c", "e", " ", "a", "d", "m", "i", "n", "i", "s", "t", "r", "a", "t", "i", "o", "n">>,
                    <<"b", "u", "s", "i", "n", "e", "s", "s", " ", "a", "d", "m", "i", "n", "i", "s", "t", "r", "a", "t", "i", "o", "n">>,
                    <<"p", "o", "l", "i", "t", "i", "c", "a", "l", " ", "s", "c", "i", "e", "n", "c", "e">>>>],
      [field |-> <<"b", "u", "s", "i", "n", "e", "s", "s", " ", "a", "d", "m", "i", "n", "i", "s", "t", "r", "a", "t", "i", "o", "n">>,
       related |-> <<<<"m", "a", "n", "a", "g", "e", "m", "e", "n", "t">>,
                    <<"o", "r", "g", "a", "n", "i", "z", "a", "t", "i", "o", "n", "a", "l", " ", "d", "e", "v", "e", "l", "o", "p", "m", "e", "n", "t">>>>]>>

\* l.1415-1424
BoostRelatedField(educationScore, jobDegree, applicantDegree) ==
    IF \E i \in DOMAIN relatedFields :
          /\ Includes(jobDegree, relatedFields[i].field)
          /\ \E k \in DOMAIN relatedFields[i].related :
                Includes(applicantDegree, relatedFields[i].related[k])
        THEN Max2(educationScore, Points(85))
    ELSE educationScore

\* l.1368-1372: the similarity of the two degree texts.
DegreeSimilarity(job, applicant) ==
    matchDegreeRequirement(trim(toLowerCase(job.degreeRequirement)),
                           trim(toLowerCase(applicant.highestEducationalAttainment)))

LeveledEducation(job, applicant) ==
    AdjustForLevel(DegreeSimilarity(job, applicant),
                   trim(toLowerCase(job.degreeRequirement)),
                   trim(toLowerCase(applicant.highestEducationalAttainment)))

\* l.1368-1427: educationScore of Algorithm 1.
EducationScore1(job, applicant) ==
    Max2(BoostRelatedField(LeveledEducation(job, applicant),
                           trim(toLowerCase(job.degreeRequirement)),
                           trim(toLowerCase(applicant.highestEducationalAttainment))),
         Points(30))

\* EducationScore2 without the adjustment for the degree levels
\* (l.1668-1687).
EducationScore2Unadjusted(job, applicant) ==
    Max2(DegreeSimilarity(job, applicant), Points(30))

\* l.1659-1689: educationScore of Algorithm 2.
EducationScore2(job, applicant) == Max2(LeveledEducation(job, applicant), Points(30))

\* l.1851-1879: educationScore of Algorithm 3.
EducationScore3(job, applicant) == LeveledEducation(job, applicant)

\* job.yearsOfExperience || 1  (l.1430, l.1612, l.1886): 1 when the job has
\* no yearsOfExperience or has 0.
RequiredYears(job) ==
    IF "yearsOfExperience" \notin DOMAIN job THEN 1
    ELSE IF job.yearsOfExperience = 0 THEN 1
    ELSE job.yearsOfExperience

\* applicant.totalYearsExperience || 0  (l.1431, l.1613, l.1887): 0 when the
\* applicant has no totalYearsExperience.
ApplicantYears(applicant) ==
    IF "totalYearsExperience" \notin DOMAIN applicant THEN 0
    ELSE applicant.totalYearsExperience

\* l.1434-1444: 100, 66.7 or 33.3
YearsScore(job, applicant) ==
    IF ApplicantYears(applicant) >= RequiredYears(job) THEN Points(100)
    ELSE IF ApplicantYears(applicant) > 0 THEN 66700
    ELSE 33300

\* l.1453-1464 for one title; Algorithm 3 (l.1909-1910) has no token score.
TitleMatch(jobTitleLower, expTitle, withTokens) ==
    LET similarity == stringSimilarity(jobTitleLower, trim(toLowerCase(expTitle)))
        jobTokens == normalizeSkill(jobTitleLower)
        common == CommonTokens(jobTokens, normalizeSkill(toLowerCase(expTitle)))
    IN  IF withTokens /\ common > 0
            THEN Max2(similarity, RoundDiv(common * Points(80), Len(jobTokens)))
        ELSE similarity

\* l.1447-1468: 50 without a job title or without work titles.
RelevanceScore(job, applicant, withTokens) ==
    IF job.title # <<>> /\ Len(applicant.workExperienceTitles) > 0
        THEN SetMax({0} \cup
                 {TitleMatch(trim(toLowerCase(job.title)),
                             applicant.workExperienceTitles[i], withTokens) :
                     i \in DOMAIN applicant.workExperienceTitles})
    ELSE Points(50)

\* l.1471: yearsScore * 0.7 + relevanceScore * 0.3
ExperienceScore(job, applicant, withTokens) ==
    RoundDiv(7 * YearsScore(job, applicant)
             + 3 * RelevanceScore(job, applicant, withTokens), 10)

\* l.1299-1323: the loop over the applicant's skills for one job skill, from
\* the k-th skill on.
RECURSIVE BestSkillMatch(_, _, _, _)
BestSkillMatch(jobSkill, applicantSkills, k, bestMatch) ==
    IF k > Len(applicantSkills) THEN bestMatch
    ELSE LET similarity == stringSimilarity(jobSkill, applicantSkills[k])
             jobTokens == normalizeSkill(jobSkill)
             common == CommonTokens(jobTokens, normalizeSkill(applicantSkills[k]))
         IN  IF similarity = Points(100) THEN Points(100)
             ELSE BestSkillMatch(jobSkill, applicantSkills, k + 1,
                      IF similarity >= Points(80) THEN Max2(bestMatch, Points(80))
                      ELSE IF similarity >= Points(50) THEN Max2(bestMatch, Points(50))
                      ELSE IF common > 0
                          THEN Max2(bestMatch,
                                    RoundDiv(common * Points(30), Len(jobTokens)))
                      ELSE bestMatch)

\* l.1288-1344
calculateSkillMatch(jobSkills, applicantSkills) ==
    LET best == [i \in DOMAIN jobSkills |->
                    BestSkillMatch(jobSkills[i], applicantSkills, 1, 0)]
        matchedCount == Cardinality({i \in DOMAIN jobSkills : best[i] >= Points(30)})
        finalScore == RoundDiv(SumSeq(best, 1), Len(jobSkills))
        bonusSkills == Max2(0, Len(applicantSkills) - Len(jobSkills))
        bonus == Min2(bonusSkills * Points(2), Points(10))
    IN  IF Len(jobSkills) = 0 THEN [score |-> Points(50), matchedCount |-> 0]
        ELSE IF Len(applicantSkills) = 0 THEN [score |-> 0, matchedCount |-> 0]
        ELSE [score |-> CapAt100(finalScore + bonus), matchedCount |-> matchedCount]

\* l.1479 (l.1692, l.1797)
JobEligibilities(job) ==
    [i \in DOMAIN job.eligibilities |-> trim(toLowerCase(job.eligibilities[i]))]

\* l.1480-1482 (l.1693-1695, l.1798-1800): entries without a title are dropped.
ApplicantEligibilities(applicant) ==
    LET titled(e) == e.eligibilityTitle # <<>>
        kept == SelectSeq(applicant.eligibilities, titled)
    IN  [i \in DOMAIN kept |-> trim(toLowerCase(kept[i].eligibilityTitle))]

Txt_none == <<"n", "o", "n", "e">>

Txt_not_required ==
    <<"n", "o", "t", " ", "r", "e", "q", "u", "i", "r", "e", "d">>

\* EligibilityRequired when only a job whose every line says none counts as
\* requiring nothing.
EligibilityRequiredUnlessAllNone(jobEligibilities) ==
    /\ Len(jobEligibilities) > 0
    /\ \E i \in DOMAIN jobEligibilities :
          /\ ~Includes(jobEligibilities[i], Txt_none)
          /\ ~Includes(jobEligibilities[i], Txt_not_required)

\* l.1487 (l.1700, l.1805)
EligibilityRequired(jobEligibilities) ==
    /\ Len(jobEligibilities) > 0
    /\ ~\E i \in DOMAIN jobEligibilities :
          \/ Includes(jobEligibilities[i], Txt_none)
          \/ Includes(jobEligibilities[i], Txt_not_required)

\* l.1497-1523 (l.1710-1733, l.1815-1826): what an applicant eligibility of
\* the given similarity and tokens offers for a requirement; Algorithm 3 has
\* no token matching.
OfferFor(similarity, reqTokens, appTokens, withTokens) ==
    IF similarity >= Points(70) THEN similarity
    ELSE IF similarity >= Points(40) THEN RoundDiv(similarity * 7, 10)
    ELSE IF withTokens /\ CommonTokens(reqTokens, appTokens) > 0
        THEN RoundDiv(CommonTokens(reqTokens, appTokens) * Points(40), Len(reqTokens))
    ELSE 0

\* l.1496-1524 (l.1709-1734, l.1814-1826)
EligibilityOffer(reqElig, appElig, withTokens) ==
    OfferFor(stringSimilarity(reqElig, appElig), normalizeSkill(reqElig),
             normalizeSkill(appElig), withTokens)

\* An offer replaces the best one only when it is larger (l.1499, l.1505,
\* l.1518).
BetterMatch(best, offer, appElig) ==
    IF offer > best.bestMatch
        THEN [bestMatch |-> offer, bestMatchingAppElig |-> appElig]
    ELSE best

\* l.1492-1525: the loop over the applicant's eligibilities for one
\* requirement, from the k-th on.
RECURSIVE BestEligibilityMatch(_, _, _, _, _)
BestEligibilityMatch(reqElig, applicantEligibilities, withTokens, k, best) ==
    IF k > Len(applicantEligibilities) THEN best
    ELSE BestEligibilityMatch(reqElig, applicantEligibilities, withTokens, k + 1,
             BetterMatch(best,
                         EligibilityOffer(reqElig, applicantEligibilities[k],
                                          withTokens),
                         applicantEligibilities[k]))

NoMatch == [bestMatch |-> 0, bestMatchingAppElig |-> <<>>]

BestMatches(jobEligibilities, applicantEligibilities, withTokens) ==
    [i \in DOMAIN jobEligibilities |->
        BestEligibilityMatch(jobEligibilities[i], applicantEligibilities,
                             withTokens, 1, NoMatch)]

\* Every applicant eligibility that offers something for some requirement
\* (instead of the best one of each requirement).
MatchedEligibilitiesAnyOffer(jobEligibilities, applicantEligibilities, withTokens) ==
    {applicantEligibilities[k] : k \in
        {k \in DOMAIN applicantEligibilities :
            \E i \in DOMAIN jobEligibilities :
                EligibilityOffer(jobEligibilities[i], applicantEligibilities[k],
                                 withTokens) > 0}}

\* l.1489, l.1527-1529: the set matchedEligibilities; an empty best text is
\* not added.
MatchedEligibilities(jobEligibilities, applicantEligibilities, withTokens) ==
    {b.bestMatchingAppElig :
        b \in Range(BestMatches(jobEligibilities, applicantEligibilities, withTokens))}
    \ {<<>>}

\* l.1545-1549: matchRatio * 60 + avgSimilarity * 0.4
ProportionalScore(best, matchedCount) ==
    RoundDiv(matchedCount * Points(600)
             + SumSeq([i \in DOMAIN best |-> best[i].bestMatch], 1) * 4,
             10 * Len(best))

ProportionalEligibility(jobEligibilities, applicantEligibilities, withTokens) ==
    ProportionalScore(
        BestMatches(jobEligibilities, applicantEligibilities, withTokens),
        Cardinality(MatchedEligibilities(jobEligibilities, applicantEligibilities,
                                         withTokens)))

\* WithEligibilityBonus when surplus eligibilities cost points.
WithEligibilityPenalty(proportional, matchedCount, bonusElig) ==
    IF matchedCount > 0
        THEN Max2(CapAt100(proportional - Min2(bonusElig * Points(5), Points(15))),
                  Points(40))
    ELSE Min2(CapAt100(proportional - Min2(bonusElig * Points(5), Points(15))),
              Points(25))

\* l.1551-1561 (l.1748-1758): the bonus for the eligibilities beyond the
\* required ones, the cap, and the floor or ceiling by the matches found.
WithEligibilityBonus(proportional, matchedCount, bonusElig) ==
    IF matchedCount > 0
        THEN Max2(CapAt100(proportional + Min2(bonusElig * Points(5), Points(15))),
                  Points(40))
    ELSE Min2(CapAt100(proportional + Min2(bonusElig * Points(5), Points(15))),
              Points(25))

\* l.1487-1562 for the two lists of eligibility texts.
EligibilityScore12(jobEligibilities, applicantEligibilities) ==
    IF ~EligibilityRequired(jobEligibilities)
        THEN [score |-> Points(50), matchedCount |-> 0]
    ELSE [score |->
              WithEligibilityBonus(
                  ProportionalEligibility(jobEligibilities, applicantEligibilities,
                                          TRUE),
                  Cardinality(MatchedEligibilities(jobEligibilities,
                                                   applicantEligibilities, TRUE)),
                  Max2(0, Len(applicantEligibilities) - Len(jobEligibilities))),
          matchedCount |->
              Cardinality(MatchedEligibilities(jobEligibilities,
                                               applicantEligibilities, TRUE))]

\* l.1484-1562 (l.1697-1759): eligibilityScore and matchedEligibilitiesCount
\* of Algorithms 1 and 2.
EligibilityMatch12(job, applicant) ==
    EligibilityScore12(JobEligibilities(job), ApplicantEligibilities(applicant))

\* l.1805-1848 for the two lists of eligibility texts.
EligibilityScore3(jobEligibilities, applicantEligibilities) ==
    IF ~EligibilityRequired(jobEligibilities)
        THEN [score |-> Points(50), matchedCount |-> 0]
    ELSE [score |-> ProportionalEligibility(jobEligibilities,
                                            applicantEligibilities, FALSE),
          matchedCount |->
              Cardinality(MatchedEligibilities(jobEligibilities,
                                               applicantEligibilities, FALSE))]

\* l.1802-1848: eligibilityScore and matchedEligibilitiesCount of Algorithm 3.
EligibilityMatch3(job, applicant) ==
    EligibilityScore3(JobEligibilities(job), ApplicantEligibilities(applicant))

-----------------------------------------------------------------------------
(* Scoring: the three algorithms and the ensemble.  The reasoning text of a *)
(* breakdown is not modelled.                                               *)

\* The value, in millionths, of the series 1 - y + y^2/2 - ... of exp(-y) for
\* y in thousandths, 0 <= y <= 1000, from the k-th term on.
RECURSIVE ExpSeries(_, _, _)
ExpSeries(y, k, term) ==
    IF term = 0 \/ k > 12 THEN 0
    ELSE (IF k % 2 = 0 THEN term ELSE -term)
         + ExpSeries(y, k + 1, RoundDiv(term * y, 1000 * (k + 1)))

\* l.1656: Math.exp(beta * Math.min(experienceRatio, 2)) / Math.exp(beta * 2)
\* with beta = 0.5, in millionths: exp(-(1 - min(ratio, 2) / 2)).
DecayFactor(job, applicant) ==
    LET halfRatio == IF ApplicantYears(applicant) >= 2 * RequiredYears(job)
                         THEN 1000
                     ELSE RoundDiv(500 * ApplicantYears(applicant),
                                   RequiredYears(job))
    IN  ExpSeries(1000 - halfRatio, 0, 1000000)

\* x * factor / 1000000 for a score x and a factor in millionths.
Scale(x, factor) ==
    (x * (factor \div 1000)) \div 1000 + RoundDiv(x * (factor % 1000), 1000000)

\* Math.round(total * 100) / 100 for a total given in hundred-thousandths.
RoundTotal(total) == ((total + 500) \div 1000) * 10

\* A ScoreBreakdown (l.1091-1101).
Breakdown(edu, exper, skills, elig, total, algorithm, nSkills, nElig) ==
    [educationScore |-> edu, experienceScore |-> exper,
     skillsScore |-> skills, eligibilityScore |-> elig,
     totalScore |-> total, algorithmUsed |-> algorithm,
     matchedSkillsCount |-> nSkills,
     matchedEligibilitiesCount |-> nElig]

\* Weights of Algorithm 1 with the experience weight raised to 0.30.
Weights1Skewed ==
    [education |-> 30, experience |-> 30, skills |-> 20, eligibility |-> 30]

\* l.1565: the weights of Algorithm 1, in hundredths.
Weights1 ==
    [education |-> 30, experience |-> 20, skills |-> 20, eligibility |-> 30]

\* l.1762: the weights of Algorithm 2, in hundredths.
Weights2 == [composite |-> 30, education |-> 35, eligibility |-> 35]

\* l.1841, l.1882, l.1915 and l.1924-1925: the points Algorithm 3 gives for a
\* score of 100 in eligibility, education and experience, the cap of the
\* skill bonus, and the weight of the skill bonus in hundredths.
Points3 ==
    [eligibility |-> 40, education |-> 30, experience |-> 20,
     skillBonus |-> 20, skillWeight |-> 10]

\* l.1564-1582: the weighted sum and the breakdown returned.
WeightedSum(edu, exper, skillsMatch, eligibility) ==
    Breakdown(edu, exper, skillsMatch.score, eligibility.score,
              RoundTotal(Weights1.education * edu
                         + Weights1.experience * exper
                         + Weights1.skills * skillsMatch.score
                         + Weights1.eligibility * eligibility.score),
              "Weighted Sum Model",
              skillsMatch.matchedCount, eligibility.matchedCount)

\* l.1363-1583
algorithm1_WeightedSum(job, applicant) ==
    WeightedSum(EducationScore1(job, applicant),
                ExperienceScore(job, applicant, TRUE),
                calculateSkillMatch(job.skills, applicant.skills),
                EligibilityMatch12(job, applicant))

\* l.1656 and l.1761-1774: the composite, the total and the breakdown
\* returned.
SkillExperienceComposite(edu, exper, skillsMatch, eligibility, decay) ==
    Breakdown(edu, exper, skillsMatch.score, eligibility.score,
              RoundTotal(Weights2.composite * Scale(skillsMatch.score, decay)
                         + Weights2.education * edu
                         + Weights2.eligibility * eligibility.score),
              "Skill-Experience Composite",
              skillsMatch.matchedCount, eligibility.matchedCount)

\* l.1602-1775
algorithm2_SkillExperienceComposite(job, applicant) ==
    SkillExperienceComposite(EducationScore2(job, applicant),
                             ExperienceScore(job, applicant, TRUE),
                             calculateSkillMatch(job.skills, applicant.skills),
                             EligibilityMatch12(job, applicant),
                             DecayFactor(job, applicant))

\* l.1840-1848, l.1881-1882, l.1915-1941: the contributions to the total and
\* the breakdown returned.
EligibilityEducationTiebreaker(edu, exper, skillsMatch, eligibility) ==
    Breakdown(edu, exper, skillsMatch.score, eligibility.score,
              RoundTotal(Points3.eligibility * eligibility.score
                         + Points3.education * edu
                         + Min2(Points3.experience * exper,
                                Points3.experience * Points(100))
                         + Min2(skillsMatch.matchedCount * 10, Points3.skillBonus)
                               * Points3.skillWeight * 1000),
              "Eligibility-Education Tie-breaker",
              skillsMatch.matchedCount, eligibility.matchedCount)

\* l.1789-1942
algorithm3_EligibilityEducationTiebreaker(job, applicant) ==
    EligibilityEducationTiebreaker(EducationScore3(job, applicant),
                                   ExperienceScore(job, applicant, FALSE),
                                   calculateSkillMatch(job.skills, applicant.skills),
                                   EligibilityMatch3(job, applicant))

\* The blend with the weights exchanged.
BlendSwapped(a, b) == ((4 * a + 6 * b + 50) \div 100) * 10

\* l.1970-1974 and l.2007-2011: Math.round((a * 0.6 + b * 0.4) * 100) / 100
Blend(a, b) == ((6 * a + 4 * b + 50) \div 100) * 10

\* l.1957-2016: the breakdown returned, from those of the three algorithms.
EnsembleOf(score1, score2, score3) ==
    IF Abs(score1.totalScore - score2.totalScore) <= Points(5)
        THEN [score3 EXCEPT !.algorithmUsed = "Ensemble (Tie-breaker)"]
    ELSE Breakdown(Blend(score1.educationScore, score2.educationScore),
                   Blend(score1.experienceScore, score2.experienceScore),
                   Blend(score1.skillsScore, score2.skillsScore),
                   Blend(score1.eligibilityScore, score2.eligibilityScore),
                   Blend(score1.totalScore, score2.totalScore),
                   "Multi-Factor Assessment",
                   score1.matchedSkillsCount, score1.matchedEligibilitiesCount)

\* l.1950-2017
ensembleScore(job, applicant) ==
    EnsembleOf(algorithm1_WeightedSum(job, applicant),
               algorithm2_SkillExperienceComposite(job, applicant),
               algorithm3_EligibilityEducationTiebreaker(job, applicant))

-----------------------------------------------------------------------------
(* Scoring: the jobs and applicants scored, and the calls of the four        *)
(* exported scoring functions.                                               *)

\* One licence, two skills, two years.
Job_Nurse ==
    [title |-> <<"S", "t", "a", "f", "f", " ", "N", "u", "r", "s", "e">>,
     degreeRequirement |-> <<"B", "a", "c", "h", "e", "l", "o", "r", " ", "i", "n", " ", "N", "u", "r", "s", "i", "n", "g">>,
     eligibilities |-> <<<<"N", "u", "r", "s", "e", " ", "L", "i", "c", "e", "n", "s", "e">>>>,
     skills |-> <<<<"P", "a", "t", "i", "e", "n", "t", " ", "C", "a", "r", "e">>, <<"T", "r", "i", "a", "g", "e">>>>,
     yearsOfExperience |-> 2]

\* Alternative degrees, no licence required, no title, no skills, no years.
Job_Clerk ==
    [title |-> <<>>,
     degreeRequirement |-> <<"B", "a", "c", "h", "e", "l", "o", "r", " ", "i", "n", " ", "L", "a", "w", " ", "o", "r", " ", "N", "u", "r", "s", "i", "n", "g">>,
     eligibilities |-> <<<<"N", "o", "n", "e", " ", "r", "e", "q", "u", "i", "r", "e", "d">>>>,
     skills |-> <<>>,
     yearsOfExperience |-> 0]

\* A degree text with a trailing section, two licence lines.
Job_Accountant ==
    [title |-> <<"A", "c", "c", "o", "u", "n", "t", "a", "n", "t">>,
     degreeRequirement |-> <<"M", "a", "s", "t", "e", "r", " ", "i", "n", " ", "A", "c", "c", "o", "u", "n", "t", "i", "n", "g", " ", "S", "k", "i", "l", "l", "s", ":", " ", "E", "x", "c", "e", "l">>,
     eligibilities |-> <<<<"C", "P", "A">>, <<"C", "P", "A", " ", "B", "o", "a", "r", "d">>>>,
     skills |-> <<<<"E", "x", "c", "e", "l">>>>,
     yearsOfExperience |-> 5]

\* Nothing is required.
Job_Open ==
    [title |-> <<>>,
     degreeRequirement |-> <<>>,
     eligibilities |-> <<>>,
     skills |-> <<>>,
     yearsOfExperience |-> 1]

\* Job_Nurse without its yearsOfExperience.
Job_NoYears ==
    [field \in DOMAIN Job_Nurse \ {"yearsOfExperience"} |-> Job_Nurse[field]]

\* Job_Nurse with a second eligibility line that says "none".
Job_Mixed ==
    [Job_Nurse EXCEPT !.eligibilities = <<Job_Nurse.eligibilities[1], Txt_none>>]

\* Three licence lines, two of them close to each other.
Job_Licences ==
    [title |-> <<"D", "r", "i", "v", "e", "r">>,
     degreeRequirement |-> <<>>,
     eligibilities |-> <<<<"L", "i", "c", "e", "n", "s", "e", " ", "1">>, <<"L", "i", "c", "e", "n", "s", "e", " ", "2">>, <<"C", "P", "A">>>>,
     skills |-> <<>>,
     yearsOfExperience |-> 0]

ScoringJobs ==
    {Job_Nurse, Job_Clerk, Job_Accountant, Job_Open, Job_NoYears, Job_Mixed,
     Job_Licences}

\* Exactly what Job_Nurse asks for.
App_Exact ==
    [highestEducationalAttainment |-> <<"b", "a", "c", "h", "e", "l", "o", "r", " ", "i", "n", " ", "n", "u", "r", "s", "i", "n", "g">>,
     eligibilities |-> <<[eligibilityTitle |-> <<"n", "u", "r", "s", "e", " ", "l", "i", "c", "e", "n", "s", "e">>]>>,
     skills |-> <<<<"p", "a", "t", "i", "e", "n", "t", " ", "c", "a", "r", "e">>, <<"t", "r", "i", "a", "g", "e">>>>,
     totalYearsExperience |-> 2,
     workExperienceTitles |-> <<<<"s", "t", "a", "f", "f", " ", "n", "u", "r", "s", "e">>>>]

\* A higher degree, more licences and more skills than any job asks for.
App_Senior ==
    [highestEducationalAttainment |-> <<"M", "a", "s", "t", "e", "r", " ", "i", "n", " ", "N", "u", "r", "s", "i", "n", "g">>,
     eligibilities |-> <<[eligibilityTitle |-> <<"N", "u", "r", "s", "e", " ", "L", "i", "c", "e", "n", "s", "e">>], [eligibilityTitle |-> <<"C", "P", "A">>], [eligibilityTitle |-> <<"D", "r", "i", "v", "e", "r">>], [eligibilityTitle |-> <<"F", "i", "r", "s", "t", " ", "A", "i", "d">>], [eligibilityTitle |-> <<"B", "L", "S">>]>>,
     skills |-> <<<<"P", "a", "t", "i", "e", "n", "t", " ", "C", "a", "r", "e">>, <<"T", "r", "i", "a", "g", "e">>, <<"E", "x", "c", "e", "l">>, <<"W", "o", "r", "d">>, <<"T", "y", "p", "i", "n", "g">>, <<"F", "i", "l", "i", "n", "g">>, <<"D", "r", "i", "v", "i", "n", "g">>, <<"C", "o", "o", "k", "i", "n", "g">>>>,
     totalYearsExperience |-> 9,
     workExperienceTitles |-> <<<<"H", "e", "a", "d", " ", "N", "u", "r", "s", "e">>>>]

\* A related field; two licences close to the one of Job_Nurse; near skills.
App_Related ==
    [highestEducationalAttainment |-> <<"B", "a", "c", "h", "e", "l", "o", "r", " ", "i", "n", " ", "M", "i", "d", "w", "i", "f", "e", "r", "y">>,
     eligibilities |-> <<[eligibilityTitle |-> <<"N", "u", "r", "s", "i", "n", "g", " ", "L", "i", "c", "e", "n", "s", "e">>], [eligibilityTitle |-> <<"N", "u", "r", "s", "e", " ", "L", "i", "c", "e", "n", "c", "e">>]>>,
     skills |-> <<<<"P", "a", "t", "i", "e", "n", "t", " ", "C", "a", "r">>, <<"T", "r", "i", "a", "g", "e", " ", "D", "e", "s", "k">>>>,
     totalYearsExperience |-> 1,
     workExperienceTitles |-> <<<<"N", "u", "r", "s", "e", " ", "A", "i", "d", "e">>>>]

\* Nothing at all.
App_Blank ==
    [highestEducationalAttainment |-> <<>>,
     eligibilities |-> <<>>,
     skills |-> <<>>,
     totalYearsExperience |-> 0,
     workExperienceTitles |-> <<>>]

\* A lower level; one entry without a title; a licence sharing one word.
App_Welder ==
    [highestEducationalAttainment |-> <<"V", "o", "c", "a", "t", "i", "o", "n", "a", "l", " ", "W", "e", "l", "d", "i", "n", "g">>,
     eligibilities |-> <<[eligibilityTitle |-> <<>>], [eligibilityTitle |-> <<"W", "e", "l", "d", "i", "n", "g", " ", "L", "i", "c", "e", "n", "s", "e">>]>>,
     skills |-> <<<<"C", "a", "r", "e">>>>,
     totalYearsExperience |-> 3,
     workExperienceTitles |-> <<<<"W", "e", "l", "d", "e", "r">>>>]

\* One licence for the two lines of Job_Accountant.
App_Accountant ==
    [highestEducationalAttainment |-> <<"M", "a", "s", "t", "e", "r", " ", "i", "n", " ", "F", "i", "n", "a", "n", "c", "e">>,
     eligibilities |-> <<[eligibilityTitle |-> <<"C", "P", "A">>]>>,
     skills |-> <<<<"M", "S", " ", "E", "x", "c", "e", "l">>>>,
     totalYearsExperience |-> 5,
     workExperienceTitles |-> <<<<"A", "c", "c", "o", "u", "n", "t", "i", "n", "g", " ", "C", "l", "e", "r", "k">>>>]

\* App_Exact without its totalYearsExperience.
App_NoYears ==
    [field \in DOMAIN App_Exact \ {"totalYearsExperience"} |-> App_Exact[field]]

\* One licence for each of the two close lines of Job_Licences.
App_Licences ==
    [highestEducationalAttainment |-> <<>>,
     eligibilities |-> <<[eligibilityTitle |-> <<"P", "R", "C", " ", "L", "i", "c", "e", "n", "s", "e", " ", "1">>], [eligibilityTitle |-> <<"P", "R", "C", " ", "L", "i", "c", "e", "n", "s", "e", " ", "2">>]>>,
     skills |-> <<>>,
     totalYearsExperience |-> 0,
     workExperienceTitles |-> <<<<"D", "r", "i", "v", "e", "r">>>>]

ScoringApplicants ==
    {App_Exact, App_Senior, App_Related, App_Blank, App_Welder, App_Accountant,
     App_NoYears, App_Licences}

\* The breakdown slot of a function that has not been called.
NotRun == Breakdown(0, 0, 0, 0, 0, "", 0, 0)

ScoringFunctions == {"algorithm1", "algorithm2", "algorithm3", "ensemble"}

HasRun(fn) == fn \in DOMAIN breakdowns /\ breakdowns[fn].algorithmUsed # ""

\* A call of one scoring function with the job and the applicant at hand.
RunScoring(fn, breakdown) ==
    /\ ~HasRun(fn)
    /\ breakdowns' = [breakdowns EXCEPT ![fn] = breakdown]
    /\ UNCHANGED <<scoredJob, scoredApplicant, rankVars, normVars>>

RunAlgorithm1 ==
    RunScoring("algorithm1", algorithm1_WeightedSum(scoredJob, scoredApplicant))

RunAlgorithm2 ==
    RunScoring("algorithm2",
               algorithm2_SkillExperienceComposite(scoredJob, scoredApplicant))

RunAlgorithm3 ==
    RunScoring("algorithm3",
               algorithm3_EligibilityEducationTiebreaker(scoredJob, scoredApplicant))

RunEnsemble ==
    RunScoring("ensemble", ensembleScore(scoredJob, scoredApplicant))

InitScore ==
    /\ RankIdle(<<>>)
    /\ NormIdle(NoFile, NoFile, <<>>)
    /\ scoredJob \in ScoringJobs
    /\ scoredApplicant \in ScoringApplicants
    /\ breakdowns = [fn \in ScoringFunctions |-> NotRun]

NextScore ==
    \/ RunAlgorithm1
    \/ RunAlgorithm2
    \/ RunAlgorithm3
    \/ RunEnsemble

SpecScore == InitScore /\ [][NextScore]_vars

-----------------------------------------------------------------------------
(* Scoring: properties.                                                      *)

AllScoringRun == \A fn \in ScoringFunctions : HasRun(fn)

WithinRange(score) == 0 <= score /\ score <= Points(100)

\* C6: whatever the job and the applicant, the educationScore, the
\* experienceScore, the skillsScore and the eligibilityScore returned by
\* algorithm1_WeightedSum, algorithm2_SkillExperienceComposite,
\* algorithm3_EligibilityEducationTiebreaker and ensembleScore each lie
\* between 0 and 100, and so does the totalScore of algorithm1_WeightedSum.
C6_ScoresWithinRange ==
    \A fn \in ScoringFunctions :
        HasRun(fn) =>
            /\ WithinRange(breakdowns[fn].educationScore)
            /\ WithinRange(breakdowns[fn].experienceScore)
            /\ WithinRange(breakdowns[fn].skillsScore)
            /\ WithinRange(breakdowns[fn].eligibilityScore)
            /\ fn = "algorithm1" => WithinRange(breakdowns[fn].totalScore)

\* The four functions have scored an applicant with more skills and more
\* eligibilities than the job lists and with a higher degree level: the
\* bonuses for the extra entries were added and cut off at 100, and the
\* education score has the 15 points of the higher level in it.
C6_Witness ==
    /\ AllScoringRun
    /\ EligibilityRequired(JobEligibilities(scoredJob))
    /\ Len(scoredApplicant.skills) > Len(scoredJob.skills)
    /\ Len(scoredJob.skills) > 0
    /\ Len(ApplicantEligibilities(scoredApplicant)) > Len(scoredJob.eligibilities)
    /\ LevelOf(toLowerCase(scoredApplicant.highestEducationalAttainment))
           > LevelOf(toLowerCase(scoredJob.degreeRequirement))
    /\ LevelOf(toLowerCase(scoredJob.degreeRequirement)) > 0
    /\ breakdowns["algorithm1"].skillsScore = Points(100)
    /\ breakdowns["algorithm1"].eligibilityScore = Points(100)
    /\ breakdowns["ensemble"].eligibilityScore = Points(100)

\* C7: for every input and every one of the four functions, the
\* matchedSkillsCount returned is at most the number of the job's skills and
\* the matchedEligibilitiesCount at most the number of the job's
\* eligibilities.
C7_MatchedCountsBounded ==
    \A fn \in ScoringFunctions :
        HasRun(fn) =>
            /\ breakdowns[fn].matchedSkillsCount <= Len(scoredJob.skills)
            /\ breakdowns[fn].matchedEligibilitiesCount
                   <= Len(scoredJob.eligibilities)

\* The four functions have scored an applicant of whose eligibilities more
\* than one offer something for the same line of the job, and of whose
\* skills every job skill finds one: both counts are at their limits.
C7_Witness ==
    /\ AllScoringRun
    /\ Cardinality(MatchedEligibilitiesAnyOffer(JobEligibilities(scoredJob),
                       ApplicantEligibilities(scoredApplicant), FALSE))
           > Len(scoredJob.eligibilities)
    /\ \A fn \in ScoringFunctions :
          /\ breakdowns[fn].matchedEligibilitiesCount = Len(scoredJob.eligibilities)
          /\ breakdowns[fn].matchedSkillsCount = Len(scoredJob.skills)
    /\ Len(scoredJob.skills) > 1

\* The breakdowns of the three algorithms and of the ensemble are at hand.
EnsembleComparable == AllScoringRun

TotalsWithinFive ==
    Abs(breakdowns["algorithm1"].totalScore - breakdowns["algorithm2"].totalScore)
        <= Points(5)

TieBreakerBreakdown ==
    [breakdowns["algorithm3"] EXCEPT !.algorithmUsed = "Ensemble (Tie-breaker)"]

\* The field of the ensemble's breakdown is 0.6 of Algorithm 1's plus 0.4 of
\* Algorithm 2's, exactly.
ExactBlend(field) ==
    10 * breakdowns["ensemble"][field]
        = 6 * breakdowns["algorithm1"][field] + 4 * breakdowns["algorithm2"][field]

\* The field of the ensemble's breakdown is that blend rounded to two
\* decimals: a multiple of 0.01 at most 0.005 away from it.
RoundedBlend(field) ==
    /\ breakdowns["ensemble"][field] % 10 = 0
    /\ Abs(10 * breakdowns["ensemble"][field]
           - (6 * breakdowns["algorithm1"][field]
              + 4 * breakdowns["algorithm2"][field])) <= 50

ScoreFields ==
    {"educationScore", "experienceScore", "skillsScore", "eligibilityScore",
     "totalScore"}

\* C8 as stated: the blended scores equal the 0.6/0.4 blend itself.
C8_Original ==
    EnsembleComparable =>
        IF TotalsWithinFive THEN breakdowns["ensemble"] = TieBreakerBreakdown
        ELSE /\ breakdowns["ensemble"].algorithmUsed = "Multi-Factor Assessment"
             /\ \A field \in ScoreFields : ExactBlend(field)

\* C8: ensembleScore returns Algorithm 3's breakdown, relabelled
\* 'Ensemble (Tie-breaker)', exactly when the totals of Algorithms 1 and 2
\* differ by at most 5; otherwise algorithmUsed is 'Multi-Factor Assessment'
\* and the totalScore and every component score are 0.6 of Algorithm 1's
\* plus 0.4 of Algorithm 2's, rounded to two decimals.
C8_EnsembleSelection ==
    EnsembleComparable =>
        IF TotalsWithinFive THEN breakdowns["ensemble"] = TieBreakerBreakdown
        ELSE /\ breakdowns["ensemble"].algorithmUsed = "Multi-Factor Assessment"
             /\ \A field \in ScoreFields : RoundedBlend(field)

\* The ensemble has blended two totals more than 5 apart, and the rounding
\* to two decimals has changed the blended total.
C8_Witness ==
    /\ EnsembleComparable
    /\ ~TotalsWithinFive
    /\ breakdowns["ensemble"].algorithmUsed = "Multi-Factor Assessment"
    /\ ~ExactBlend("totalScore")
    /\ RoundedBlend("totalScore")


\* The most points Algorithm 3 can give: each of its four contributions
\* at its maximum.
MaxTotal3 ==
    Points3.eligibility + Points3.education + Points3.experience
        + (Points3.skillBonus * Points3.skillWeight) \div 100

\* The largest and the smallest of the four component scores of a breakdown.
LargestComponent(b) ==
    Max2(Max2(b.educationScore, b.experienceScore),
         Max2(b.skillsScore, b.eligibilityScore))

SmallestComponent(b) ==
    Min2(Min2(b.educationScore, b.experienceScore),
         Min2(b.skillsScore, b.eligibilityScore))

\* Every component of Algorithm 3's breakdown is 100 and two of the job's
\* skills or more are matched: each contribution is at its maximum.
FullMarks3 ==
    /\ HasRun("algorithm3")
    /\ SmallestComponent(breakdowns["algorithm3"]) = Points(100)
    /\ breakdowns["algorithm3"].matchedSkillsCount >= 2

\* The weights of Algorithms 1 and 2 sum to 1.0: each total is an average
\* of its components, so it lies between the smallest and the largest of
\* them (Algorithm 2's skills enter decayed, so only the upper limit holds),
\* give or take the rounding to two decimals.
WeightsAverage ==
    /\ Weights1.education + Weights1.experience + Weights1.skills
           + Weights1.eligibility = 100
    /\ Weights2.composite + Weights2.education + Weights2.eligibility = 100
    /\ HasRun("algorithm1") =>
           /\ breakdowns["algorithm1"].totalScore
                  <= LargestComponent(breakdowns["algorithm1"]) + 5
           /\ breakdowns["algorithm1"].totalScore
                  >= SmallestComponent(breakdowns["algorithm1"]) - 5
    /\ HasRun("algorithm2") =>
           breakdowns["algorithm2"].totalScore
               <= Max2(Max2(breakdowns["algorithm2"].educationScore,
                            breakdowns["algorithm2"].skillsScore),
                       breakdowns["algorithm2"].eligibilityScore) + 5

ThreeAlgorithmsRun ==
    HasRun("algorithm1") /\ HasRun("algorithm2") /\ HasRun("algorithm3")

ComponentFields ==
    {"educationScore", "experienceScore", "skillsScore", "eligibilityScore",
     "matchedSkillsCount", "matchedEligibilitiesCount"}

\* The two algorithms return the same value in the field.
SameIn(field, fn, gn) == breakdowns[fn][field] = breakdowns[gn][field]

C23_EducationFloor ==
    \A fn \in ScoringFunctions :
        HasRun(fn) => breakdowns[fn].educationScore >= Points(30)

\* The line of a job's eligibilities contains 'none' or 'not required' in
\* lower case.
SaysNone(line) ==
    \/ Includes(toLowerCase(line), Txt_none)
    \/ Includes(toLowerCase(line), Txt_not_required)

\* The breakdown has the neutral eligibility result.
NeutralEligibility(b) ==
    b.eligibilityScore = Points(50) /\ b.matchedEligibilitiesCount = 0

Algorithms == {"algorithm1", "algorithm2", "algorithm3"}

\* C24 as stated: the neutral result is returned exactly when the job has
\* no eligibility line or every line says none; a job with a line that does
\* not say none is matched against the applicant.
C24_Original ==
    \A fn \in Algorithms :
        HasRun(fn) =>
            (NeutralEligibility(breakdowns[fn])
                <=> \A i \in DOMAIN scoredJob.eligibilities :
                        SaysNone(scoredJob.eligibilities[i]))

\* C24: the neutral eligibility result (eligibilityScore 50,
\* matchedEligibilitiesCount 0) is returned exactly when the job has no
\* eligibility line or at least one of its lines contains 'none' or
\* 'not required'; a job none of whose lines contains them is scored by
\* eligibility matching against the applicant.
C24_NeutralWhenAnyLineSaysNone ==
    \A fn \in Algorithms :
        HasRun(fn) =>
            (NeutralEligibility(breakdowns[fn])
                <=> \/ Len(scoredJob.eligibilities) = 0
                    \/ \E i \in DOMAIN scoredJob.eligibilities :
                          SaysNone(scoredJob.eligibilities[i]))

\* The three algorithms have returned the neutral result for a job with a
\* line that says none and a line that the applicant's eligibility matches.
C24_Witness ==
    /\ ThreeAlgorithmsRun
    /\ \A fn \in Algorithms : NeutralEligibility(breakdowns[fn])
    /\ \E i, j \in DOMAIN scoredJob.eligibilities :
          /\ SaysNone(scoredJob.eligibilities[i])
          /\ ~SaysNone(scoredJob.eligibilities[j])
          /\ \E k \in DOMAIN ApplicantEligibilities(scoredApplicant) :
                stringSimilarity(toLowerCase(scoredJob.eligibilities[j]),
                                 ApplicantEligibilities(scoredApplicant)[k])
                    = Points(100)

\* C27: in the returned list matchScore is non-increasing in rank, whether
\* AI micro-adjustments were applied and the list re-sorted or not.
C27_MatchScoreNonIncreasing ==
    Returned =>
        \A i, j \in DOMAIN rankedApplicants :
            i < j => rankedApplicants[i].matchScore >= rankedApplicants[j].matchScore

\* The list after the tie-break step is the deterministic sort's list, with
\* every totalScore and every reasoning as scored, and the ranks follow it.
DeterministicOrderKept ==
    /\ sortedApplicants = detSorted
    /\ \A i \in DOMAIN sortedApplicants :
          /\ sortedApplicants[i].totalScore
                = ScoredOf(sortedApplicants[i].applicantId).totalScore
          /\ sortedApplicants[i].tieBreakNotes = 0
    /\ Len(rankedApplicants) = Len(detSorted)
    /\ \A i \in DOMAIN rankedApplicants :
          /\ rankedApplicants[i].applicantId = detSorted[i].applicantId
          /\ rankedApplicants[i].matchScore = detSorted[i].totalScore

\* C28: when tie-group detection finds no group the tie-breaking service is
\* never invoked; when it is invoked and returns no results, no totalScore
\* and no reasoning changes and the list is not re-sorted, so the final
\* order is the order of the deterministic sort.
C28_NoGroupNoCallNoResultsNoChange ==
    /\ (rpc # "scored" /\ tieGroups = {}) => tieBreakCalls = 0
    /\ (Returned /\ tieBreakCalls > 0 /\ DOMAIN tieBreakResults = {})
          => DeterministicOrderKept

\* C28 witness: the service was invoked and returned nothing for a list that
\* a re-sort by totalScore would have reordered, and the run finished.
C28_Witness ==
    /\ rpc = "done"
    /\ tieBreakCalls = 1
    /\ DOMAIN tieBreakResults = {}
    /\ DeterministicOrderKept
    /\ \E i, j \in DOMAIN detSorted :
          i < j /\ detSorted[i].totalScore < detSorted[j].totalScore

\* Some tie group holds both applicants.
InSameTieGroup(a, b) == \E g \in tieGroups : a \in g /\ b \in g

\* The totalScore of an applicant after its micro-adjustment, if any.
AdjustedTotal(id) == ScoredOf(id).totalScore + AdjustmentOf(id)

\* Every matchScore that differs from the totalScore scored belongs to an
\* applicant of the given set.
ChangedOnlyIn(ids) ==
    \A i \in DOMAIN rankedApplicants :
        rankedApplicants[i].matchScore
            # ScoredOf(rankedApplicants[i].applicantId).totalScore
        => rankedApplicants[i].applicantId \in ids

\* C29 as stated: micro-adjustments change the totalScore of members of a
\* tie group only, and two applicants that are not in the same tie group
\* stand in the returned list in the order of the deterministic sort.
C29_Original ==
    Returned =>
        /\ ChangedOnlyIn(UNION tieGroups)
        /\ \A i, j \in DOMAIN detSorted :
              (i < j /\ ~InSameTieGroup(detSorted[i].applicantId,
                                        detSorted[j].applicantId))
              => RankOf(detSorted[i].applicantId) < RankOf(detSorted[j].applicantId)

\* C29 as amended: micro-adjustments change the totalScore of the applicants
\* named in the tie-break results only, and when there are results the
\* re-sort places any two applicants, of one tie group or not, by their
\* adjusted totalScore: the one the deterministic sort placed first stays
\* first exactly when its adjusted totalScore is not below the other's.
C29_ResortByAdjustedTotal ==
    Returned =>
        /\ ChangedOnlyIn(DOMAIN tieBreakResults)
        /\ \A i, j \in DOMAIN detSorted :
              (i < j /\ DOMAIN tieBreakResults # {})
              => (RankOf(detSorted[i].applicantId) < RankOf(detSorted[j].applicantId)
                    <=> AdjustedTotal(detSorted[i].applicantId)
                            >= AdjustedTotal(detSorted[j].applicantId))

\* C29 witness: after a downward adjustment a member of a tie group stands
\* behind an applicant outside every tie group that the deterministic sort
\* had placed after it.
C29_Witness ==
    /\ rpc = "done"
    /\ \E i, j \in DOMAIN detSorted :
          /\ i < j
          /\ detSorted[i].applicantId \in UNION tieGroups
          /\ detSorted[j].applicantId \notin UNION tieGroups
          /\ AdjustmentOf(detSorted[i].applicantId) < 0
          /\ RankOf(detSorted[j].applicantId) < RankOf(detSorted[i].applicantId)

\* Eligibility matching applies to the job at hand: it has lines and none
\* of them says none.
MatchingApplies ==
    /\ Len(scoredJob.eligibilities) > 0
    /\ \A i \in DOMAIN scoredJob.eligibilities :
          ~SaysNone(scoredJob.eligibilities[i])

\* The eligibilityScore is at least 40 with a match, at most 25 without one,
\* and at most 100.
FloorAndCeiling(b) ==
    /\ b.matchedEligibilitiesCount > 0 => b.eligibilityScore >= Points(40)
    /\ b.matchedEligibilitiesCount = 0 => b.eligibilityScore <= Points(25)
    /\ b.eligibilityScore <= Points(100)

\* C25: whenever eligibility matching applies, the eligibilityScore that
\* Algorithm 1, 2 or 3 returns is at least 40 if matchedEligibilitiesCount
\* is above 0, at most 25 if it is 0, and never above 100.
C25_EligibilityFloorAndCeiling ==
    \A fn \in Algorithms :
        HasRun(fn) /\ MatchingApplies => FloorAndCeiling(breakdowns[fn])

\* The years component by the job's own yearsOfExperience: 100 when the
\* applicant's years reach it, 66.7 with some experience, 33.3 with none.
YearsTier(requiredYears, applicantYears) ==
    IF applicantYears >= requiredYears THEN Points(100)
    ELSE IF applicantYears > 0 THEN 66700
    ELSE 33300

\* 0.7 x the years component + 0.3 x relevance for the pair at hand;
\* Algorithm 3 takes the relevance without token matching.
TieredExperience(fn) ==
    RoundDiv(7 * YearsTier(scoredJob.yearsOfExperience,
                           scoredApplicant.totalYearsExperience)
             + 3 * RelevanceScore(scoredJob, scoredApplicant, fn # "algorithm3"),
             10)

\* C26: for every job.yearsOfExperience >= 0, 0 included, and every
\* applicant.totalYearsExperience, the experienceScore returned is 0.7 x the
\* years component + 0.3 x relevance, where the years component is 100 when
\* the applicant's years meet or exceed the job's, 66.7 when the applicant
\* has some experience but less, and 33.3 when the applicant has none and the
\* requirement is not met.
C26_YearsTiers ==
    \A fn \in Algorithms :
        /\ HasRun(fn)
        /\ "yearsOfExperience" \in DOMAIN scoredJob
        /\ "totalYearsExperience" \in DOMAIN scoredApplicant
        => breakdowns[fn].experienceScore = TieredExperience(fn)

\* Titles an applicant may hold in addition.
ExtraEligibilities == {<<"l", "i", "c", "e", "n", "s", "e">>, <<"n", "u", "r", "s", "e", " ", "l", "i", "c", "e", "n", "s", "e">>, <<"c", "p", "a", " ", "b", "o", "a", "r", "d">>}

\* The applicant with one more eligibility, after the ones it has.
WithEligibility(applicant, title) ==
    [applicant EXCEPT !.eligibilities = Append(@, [eligibilityTitle |-> title])]

\* eligibilityScore and matchedEligibilitiesCount of Algorithms 1 and 2 for
\* the job at hand and the applicant at hand with one more eligibility.
WithOneMore(title) ==
    EligibilityMatch12(scoredJob, WithEligibility(scoredApplicant, title))

\* C30 as stated: one more eligibility never lowers the eligibilityScore
\* that Algorithm 1 or 2 returns for the same job.
C30_Original ==
    \A fn \in {"algorithm1", "algorithm2"} :
        HasRun(fn) =>
            \A title \in ExtraEligibilities :
                WithOneMore(title).score >= breakdowns[fn].eligibilityScore

\* C30 as amended: one more eligibility never lowers the eligibilityScore
\* provided matchedEligibilitiesCount, the number of different applicant
\* eligibilities that are the best match of a requirement line, does not
\* fall.
C30_MonotoneWhileCountHolds ==
    \A fn \in {"algorithm1", "algorithm2"} :
        HasRun(fn) =>
            \A title \in ExtraEligibilities :
                WithOneMore(title).matchedCount
                    >= breakdowns[fn].matchedEligibilitiesCount
                => WithOneMore(title).score >= breakdowns[fn].eligibilityScore

\* C30 witness: Algorithm 1 has scored a pair with a match; an added
\* eligibility that takes over a requirement line leaves the count as it
\* was and raises the score.
C30_Witness ==
    /\ HasRun("algorithm1")
    /\ MatchingApplies
    /\ breakdowns["algorithm1"].matchedEligibilitiesCount > 0
    /\ \E title \in ExtraEligibilities :
          /\ WithOneMore(title).matchedCount
                = breakdowns["algorithm1"].matchedEligibilitiesCount
          /\ WithOneMore(title).score > breakdowns["algorithm1"].eligibilityScore
          /\ title \in MatchedEligibilities(JobEligibilities(scoredJob),
                 ApplicantEligibilities(WithEligibility(scoredApplicant, title)),
                 TRUE)

\* The records at hand have the numeric fields that JobRequirements and
\* ApplicantData require (l.1080, l.1087).
RequiredNumbersPresent ==
    /\ "yearsOfExperience" \in DOMAIN scoredJob
    /\ "totalYearsExperience" \in DOMAIN scoredApplicant

\* C15: a job without yearsOfExperience or an applicant without
\* totalYearsExperience makes scoring fail: no scoring function returns a
\* ScoreBreakdown for such a pair.
C15_MissingNumberFailsFast ==
    \A fn \in ScoringFunctions : HasRun(fn) => RequiredNumbersPresent

=============================================================================
